---- MODULE Spec2Model ----
(***************************************************************************)
(* Reconciliation controller of lspnet-tools-node (src/src/controller.ts). *)
(*                                                                         *)
(* One tick (ControlAgent.doSyncOnce) is one action.  The tick is written  *)
(* as a composition of operators over a "machine" record m that carries    *)
(* the kernel state (WireGuard devices, veth, iptables), the persistent    *)
(* store (wgkey, simplekv), the supervised units, and the running status   *)
(* of the tick.  Every external call is a fault site: the action draws     *)
(* the site at which an external fault occurs (or none), and the tick      *)
(* aborts at the first call whose site is the drawn one, exactly as a      *)
(* rejected promise propagates to the try/catch of ServiceMain.            *)
(***************************************************************************)
EXTENDS Integers, Sequences, FiniteSets, TLC

\* ------------------------------------------------------------- bounds
MaxUpdates == 2      \* controller changes of the desired state in a run
MaxDrift == 1        \* external (adversary) changes of kernel state in a run
MaxFaults == 1       \* external calls that fail in a run
MaxProbers == 3      \* interfaces a call of CalculateMultiplePings is asked to ping

\* -------------------------------------------------- program constants
KeyPoolSize == 20    \* doSyncWireGuardKeys(20)
DefaultCost == 1000  \* peer.extra?.ospf?.cost ?? 1000
MinCost == 1         \* Math.max(1, ...)
MaxCost == 65535     \* Math.min(..., 65535)

\* ------------------------------------------------------------ domains
PeerIds == {1}                    \* ifname is {namespace}-{id}
PublicKeys == {1, 2}              \* pool keys the controller selects from
PeerPublicKeys == {201, 202}      \* public keys of the remote ends
ListenPorts == {0, 51820}
Keepalives == {25}

NoEndpoint == [host |-> "", port |-> 0]
RemoteEndpoint == [host |-> "198.51.100.9", port |-> 51820]
Loopback(port) == [host |-> "127.0.0.1", port |-> port]

NoUnderlay == [provider |-> "none", listen_port |-> 0, server_addr |-> "", server_port |-> 0]
ClientUnderlay == [provider |-> "gost_relay_client", listen_port |-> 1080,
                   server_addr |-> "1.2.3.4", server_port |-> 443]
ServerUnderlay == [provider |-> "gost_relay_server", listen_port |-> 2000,
                   server_addr |-> "", server_port |-> 0]
Underlays == {NoUnderlay, ClientUnderlay, ServerUnderlay}

\* peer.extra.ospf; defined = FALSE stands for extra.ospf === undefined
NoOspf == [defined |-> FALSE, cost |-> 0, ping |-> FALSE, offset |-> 0]

\* ----------------------------------------------------- iptables rules
\* A rule is the tuple of what `iptables -t table -A chain ...` was given.
\* ns = TRUE: the rule lives in the iptables of the network namespace.
Rule(ns, table, chain, body, port, jump, tag, ifn) ==
    [ns |-> ns, table |-> table, chain |-> chain, body |-> body, port |-> port,
     jump |-> jump, tag |-> tag, ifn |-> ifn]
NoRule == Rule(FALSE, "", "", "", 0, "", "", 0)

TagVeth == "#local_veth#"
TagPeer == "#peer_{ifname}#"      \* together with the rule's ifn

MasqueradeRule == Rule(FALSE, "nat", "ns-POSTROUTING", "-o eth -j MASQUERADE", 0, "", "", 0)
TcpMssRule == Rule(TRUE, "filter", "FORWARD",
                   "-p tcp --tcp-flags SYN,RST SYN -j TCPMSS --clamp-mss-to-pmtu", 0, "", "", 0)
JumpRule(table, chain) == Rule(FALSE, table, chain, "-j", 0, "ns-" \o chain, "", 0)
VethNatAccept == Rule(FALSE, "nat", "ns-POSTROUTING", "-s cidr -d cidr -o veth0 -j ACCEPT", 0, "", TagVeth, 0)
VethNatSnat == Rule(FALSE, "nat", "ns-POSTROUTING", "! -d 224.0.0.0/4 -o veth0 -j SNAT --to ip", 0, "", TagVeth, 0)
VethForward == Rule(FALSE, "filter", "ns-FORWARD", "-o veth0 -j ACCEPT", 0, "", TagVeth, 0)
VethInputOspf == Rule(FALSE, "filter", "ns-INPUT", "-p ospf -j ACCEPT", 0, "", TagVeth, 0)
VethRules == {VethNatAccept, VethNatSnat, VethForward, VethInputOspf}
PeerRuleUntagged(id, port) == Rule(FALSE, "filter", "ns-INPUT", "-p udp --dport port -j ACCEPT", port, "", "", id)
PeerRule(id, port) == Rule(FALSE, "filter", "ns-INPUT", "-p udp --dport port -j ACCEPT", port, "", TagPeer, id)

AgentChains == << <<"nat", "POSTROUTING">>, <<"nat", "PREROUTING">>, <<"raw", "PREROUTING">>,
                  <<"mangle", "OUTPUT">>, <<"mangle", "POSTROUTING">>,
                  <<"filter", "FORWARD">>, <<"filter", "INPUT">> >>

VARIABLES
    remoteConfig,   \* desired node config served by the controller
    remotePeers,    \* desired peers: function from a set of ids to peer records
    wgkey,          \* store table wgkey: set of [private, public]
    simplekv,       \* store table simplekv: key (ifname id) -> [value, expires]
    wg,             \* WireGuard devices: ifname id -> device record
    veth0,          \* {ns}-veth0 exists
    iptables,       \* set of rules the kernel holds
    chains,         \* agent chains that exist, as <<table, chain>>
    units,          \* running supervised worker units: name -> config
    nextUnit,       \* stands for crypto.randomUUID(): next fresh unit name
    posted,         \* public keys last posted to sync_wireguard_keys
    bird,           \* the routing config last moved into router/bird.conf
    router,         \* state of the router container
    probe,          \* round-trip samples the probes of the last tick collected
    tick,           \* outcome of the last doSyncOnce
    fresh,          \* the last step was a tick: nothing changed since it ended
    dropped,        \* the rule an adversary deleted since the last change of the desired state
    updates,        \* controller changes so far
    drifts,         \* external kernel changes so far
    faults,         \* external calls that failed so far
    loop,           \* where the ServiceMain loop stands
    vethLink,       \* the veth pair CreateVethDevice was asked for, and its addresses
    pinger,         \* a call of CalculateMultiplePings and its prober processes
    ospfState,      \* the text given to parseOSPFState and what it returned
    tmpfiles        \* the one-shot temp files that exist under /tmp

vars == <<remoteConfig, remotePeers, wgkey, simplekv, wg, veth0, iptables, chains,
          units, nextUnit, posted, bird, router, probe, tick, fresh, dropped, updates, drifts, faults, loop, vethLink, pinger, ospfState, tmpfiles>>

\* ------------------------------------------------------------ helpers
Put(f, k, v) == [x \in DOMAIN f \cup {k} |-> IF x = k THEN v ELSE f[x]]
Drop(f, k) == [x \in DOMAIN f \ {k} |-> f[x]]
Min(S) == CHOOSE x \in S : \A y \in S : x <= y

\* ------------------------------------------------------- the machine
NoFault == <<"none", 0>>

Machine(fault) ==
    [st |-> "ok", fault |-> fault, faulted |-> FALSE, error |-> "",
     wgkey |-> wgkey, simplekv |-> simplekv, wg |-> wg, veth0 |-> veth0,
     iptables |-> iptables, chains |-> chains, units |-> units, nextUnit |-> nextUnit,
     posted |-> posted, bird |-> bird, router |-> router, tmp |-> tmpfiles, issued |-> {},
     log |-> << >>]

\* a rejected promise / thrown exception: nothing later in the tick runs
Throw(m, why) == IF m.st = "ok" THEN [m EXCEPT !.st = "aborted", !.error = why] ELSE m

\* an external call at `site` for interface `id` whose effect is m2
Call(m, site, id, m2) ==
    IF m.st # "ok" THEN m
    ELSE IF m.fault = <<site, id>>
         THEN [m EXCEPT !.st = "aborted", !.faulted = TRUE, !.error = site]
         ELSE m2

\* the commands of the routing and telemetry stages in the order they are
\* issued, each with the container state it met
Step(m, op) == [m EXCEPT !.log = Append(@, [op |-> op, router |-> m.router])]

Issue(m, op, id, rule) == [m EXCEPT !.issued = @ \cup {[op |-> op, ifn |-> id, rule |-> rule]}]

\* ------------------------------------------------- iptables manager
tryCreateIptablesChain(m, k) ==
    Call(m, "iptables -N", k, [m EXCEPT !.chains = @ \cup {AgentChains[k]}])

\* `iptables -C`: exit 0 iff the kernel holds the rule
tryCheckIptablesRule(m, rule) == rule \in m.iptables

tryAppendIptablesRule(m, site, id, rule) ==
    Call(m, site, id,
         IF tryCheckIptablesRule(m, rule) THEN m
         ELSE Issue([m EXCEPT !.iptables = @ \cup {rule}], "iptables -A", id, rule))

tryInsertIptablesRule(m, site, id, rule) ==
    Call(m, site, id,
         IF tryCheckIptablesRule(m, rule) THEN m
         ELSE Issue([m EXCEPT !.iptables = @ \cup {rule}], "iptables -I", id, rule))

tryDeleteIptablesRule(m, site, id, rule) ==
    Call(m, site, id,
         IF tryCheckIptablesRule(m, rule)
         THEN Issue([m EXCEPT !.iptables = @ \ {rule}], "iptables -D", id, rule)
         ELSE m)

RECURSIVE EnsureIPTablesFrom(_, _)
EnsureIPTablesFrom(m, k) ==
    IF k > Len(AgentChains) THEN m
    ELSE EnsureIPTablesFrom(
             tryInsertIptablesRule(tryCreateIptablesChain(m, k), "iptables -I", k,
                                   JumpRule(AgentChains[k][1], AgentChains[k][2])),
             k + 1)

EnsureIPTables(m) == EnsureIPTablesFrom(m, 1)

\* the rule-existence check is a simpleCall: a failure other than the two
\* matched messages is neither thrown nor followed by the append
tryPatchMTU(m) ==
    IF m.st # "ok" THEN m
    ELSE IF m.fault = <<"iptables -C TCPMSS", 0>> THEN [m EXCEPT !.faulted = TRUE]
    ELSE IF TcpMssRule \in m.iptables THEN m
    ELSE Call(m, "iptables -A TCPMSS", 0,
              Issue([m EXCEPT !.iptables = @ \cup {TcpMssRule}], "iptables -A", 0, TcpMssRule))

EnsurePrerequisites(m) ==
    LET m1 == Call(m, "EnsureNetNs", 0, m)
        m2 == EnsureIPTables(m1)
        m3 == Call(m2, "EnsureIPForward", 0, m2)
        m4 == Call(m3, "EnsureTempDir", 0, m3)
    IN  tryPatchMTU(m4)

\* ------------------------------------------------------ key-pool sync
\* `wg genkey` is checked; `wg pubkey` is a simpleCall whose failure leaves
\* an empty stdout, that is the public key "" (0 here)
generateNewWireGuardKeyPair(m) ==
    LET n == Cardinality(m.wgkey) + 1
    IN  [private |-> 100 + n,
         public |-> IF m.fault = <<"wg pubkey", 0>> THEN 0 ELSE n]

\* insert into wgkey(private, public, unique(public))
createWireGuardKey(m, kp) ==
    IF \E k \in m.wgkey : k.public = kp.public
    THEN Throw(m, "UNIQUE constraint failed: wgkey.public")
    ELSE [m EXCEPT !.wgkey = @ \cup {kp}]

RECURSIVE doSyncWireGuardKeys(_, _)
\* the same without the re-entry: one pair at most, and the list read on entry
doSyncWireGuardKeysOnce(m, atLeast) ==
    IF m.st # "ok" THEN m
    ELSE LET m1 == IF Cardinality(m.wgkey) < atLeast
                   THEN Call(m, "wg genkey", 0,
                             createWireGuardKey(m, generateNewWireGuardKeyPair(m)))
                   ELSE m
         IN  Call(m1, "POST sync_wireguard_keys", 0,
                  [m1 EXCEPT !.posted = {k.public : k \in m.wgkey}])
doSyncWireGuardKeys(m, atLeast) ==
    IF m.st # "ok" THEN m
    ELSE IF Cardinality(m.wgkey) < atLeast
    THEN doSyncWireGuardKeys(
             Call(m, "wg genkey", 0,
                  createWireGuardKey(
                      [m EXCEPT !.faulted = @ \/ m.fault = <<"wg pubkey", 0>>,
                                !.fault = IF @ = <<"wg pubkey", 0>> THEN NoFault ELSE @],
                      generateNewWireGuardKeyPair(m))),
             atLeast)
    ELSE Call(m, "POST sync_wireguard_keys", 0,
              [m EXCEPT !.posted = {k.public : k \in m.wgkey}])

\* ---------------------------------------------------------- exit node
doSyncExitNodeAppendOnly(m, rc) ==
    Call(m, "iptables -C MASQUERADE", 0,
         IF rc.exitNode THEN tryAppendIptablesRule(m, "iptables -A MASQUERADE", 0, MasqueradeRule)
         ELSE m)
doSyncExitNode(m, rc) ==
    LET isExitNode == tryCheckIptablesRule(m, MasqueradeRule)
    IN  Call(m, "iptables -C MASQUERADE", 0,
             IF ~isExitNode /\ rc.exitNode
             THEN tryAppendIptablesRule(m, "iptables -A MASQUERADE", 0, MasqueradeRule)
             ELSE IF isExitNode /\ ~rc.exitNode
             THEN tryDeleteIptablesRule(m, "iptables -D MASQUERADE", 0, MasqueradeRule)
             ELSE m)

\* ------------------------------------------------------- link manager
NewDevice == [inns |-> FALSE, addr |-> FALSE, up |-> FALSE, private |-> 0, listen |-> 0,
              peers |-> [k \in {} |-> 0]]
NoPeerEntry == [endpoint |-> NoEndpoint, keepalive |-> 0, allowedIPs |-> ""]

\* devices visible inside the namespace
InNs(m) == {i \in DOMAIN m.wg : m.wg[i].inns}

\* ip link add (root namespace), move to the namespace, address, mtu
CreateWireGuardDevice(m, id) ==
    LET m1 == Call(m, "ip link add", id,
                   IF id \in DOMAIN m.wg THEN Throw(m, "RTNETLINK answers: File exists")
                   ELSE Issue([m EXCEPT !.wg = Put(@, id, NewDevice)], "ip link add", id, NoRule))
        m2 == Call(m1, "ip link set netns", id, [m1 EXCEPT !.wg[id].inns = TRUE])
        m3 == Call(m2, "ip addr add", id, [m2 EXCEPT !.wg[id].addr = TRUE])
    IN  Call(m3, "ip link set mtu", id, m3)

WgOptions(private, listenPort, peerPublic, endpoint, keepalive, allowedIPs) ==
    [private |-> private, listenPort |-> listenPort, peerPublic |-> peerPublic,
     endpoint |-> endpoint, keepalive |-> keepalive, allowedIPs |-> allowedIPs]

\* effect of `wg set name private-key F [listen-port P] [peer K [endpoint E]
\* [persistent-keepalive N] [allowed-ips A]]`
WgSet(dev, o) ==
    LET old == IF o.peerPublic \in DOMAIN dev.peers THEN dev.peers[o.peerPublic] ELSE NoPeerEntry
        new == [endpoint |-> IF o.endpoint # NoEndpoint THEN o.endpoint ELSE old.endpoint,
                keepalive |-> IF o.keepalive # 0 THEN o.keepalive ELSE old.keepalive,
                allowedIPs |-> IF o.allowedIPs # "" THEN o.allowedIPs ELSE old.allowedIPs]
    IN  [dev EXCEPT !.private = o.private,
                    !.listen = IF o.listenPort # 0 THEN o.listenPort ELSE @,
                    !.peers = IF o.peerPublic # 0 THEN Put(@, o.peerPublic, new) ELSE @]

\* options.private = 0 stands for an options object without `private`:
\* fs.writeFile(tempFilename, undefined) rejects before the try block
AssignWireGuardDevice(m, id, o) ==
    IF m.st # "ok" THEN m
    ELSE IF o.private = 0 THEN Throw(m, "ERR_INVALID_ARG_TYPE: data is undefined")
    ELSE LET m1 == Call(m, "writeFile key", id, m)
             m2 == IF o.peerPublic # 0 /\ o.endpoint # NoEndpoint
                   THEN Call(m1, "dns lookup", id, m1) ELSE m1
         IN  Call(m2, "wg set", id,
                  IF id \in InNs(m2)
                  THEN Issue([m2 EXCEPT !.wg[id] = WgSet(@, o)], "wg set", id, NoRule)
                  ELSE Throw(m2, "Unable to modify interface: No such device"))

UpWireGuardDevice(m, id) ==
    Call(m, "ip link set up", id, [m EXCEPT !.wg[id].up = TRUE])

tryDestroyDeviceKeeps(m, id) == Call(m, "ip -j link", id, m)
\* GetAllLinks, then `ip link del` iff the name is listed
tryDestroyDevice(m, id) ==
    Call(m, "ip -j link", id,
         IF id \in InNs(m)
         THEN Call(m, "ip link del", id,
                   Issue([m EXCEPT !.wg = Drop(@, id)], "ip link del", id, NoRule))
         ELSE m)

\* `wg show all dump` parsed into ifname -> state; keepalive "off" is absent
DumpAllWireGuardState(m) == [i \in InNs(m) |-> m.wg[i]]

\* iptables-save prints a comment that holds a character outside
\* [A-Za-z0-9_-] inside double quotes
xtables_save_string(tag) == IF tag = "" THEN "" ELSE "\"" \o tag \o "\""

\* the -A lines of iptables-save (root namespace), one record per line
GetAllIPTablesRules(m) ==
    {[r EXCEPT !.tag = xtables_save_string(@)] : r \in {x \in m.iptables : ~x.ns}}

\* line.includes(chainName): the chain of the -A, or the target of a jump
LineIncludesChain(line, chainName) == line.chain = chainName \/ line.jump = chainName
\* line.includes(tag)
LineIncludesTag(line, tag) == line.tag = xtables_save_string(tag)

\* ------------------------------------------------------------- store
Now == 1700000000
NullExpires == [null |-> TRUE, at |-> 0]
Undefined == [unit_name |-> 0, mode |-> "undefined", listen_port |-> 0,
              server_ip |-> "", server_port |-> 0]

\* returns the machine and the value read
_getKey(m, key) ==
    IF key \notin DOMAIN m.simplekv THEN [m |-> m, v |-> Undefined]
    ELSE LET row == m.simplekv[key]
         IN  IF row.expires.null
             THEN [m |-> Throw(m, "ZodError: expires: expected number, received null"),
                   v |-> Undefined]
             ELSE IF row.expires.at > Now
             THEN [m |-> [m EXCEPT !.simplekv = Drop(@, key)], v |-> Undefined]
             ELSE [m |-> m, v |-> row.value]

\* called without ttlSeconds: expires is stored as null; the upsert is a
\* write of the database file, which can fail
_setKey(m, key, value) ==
    Call(m, "upsert simplekv", key,
         Issue([m EXCEPT !.simplekv = Put(@, key, [value |-> value, expires |-> NullExpires])],
               "set record", key, NoRule))

_deleteKey(m, key) ==
    IF key \in DOMAIN m.simplekv
    THEN Issue([m EXCEPT !.simplekv = Drop(@, key)], "delete record", key, NoRule)
    ELSE m

getLocalUnderlayState(m, ifname) == _getKey(m, ifname)
setLocalUnderlayState(m, ifname, state) == _setKey(m, ifname, state)
deleteLocalUnderlayState(m, ifname) == _deleteKey(m, ifname)

getAllWireGuardKeys(m) == m.wgkey

\* ------------------------------------------------ relay-worker manager
\* getAllLoadedSystemdServices is checked; the stop itself is best effort
StopSystemdServiceBestEffort(m, unit) ==
    Call(m, "systemctl show", 0,
         IF unit \notin DOMAIN m.units THEN m
         ELSE IF m.fault = <<"systemctl stop", 0>> THEN [m EXCEPT !.faulted = TRUE]
         ELSE Issue([m EXCEPT !.units = Drop(@, unit)], "systemctl stop", unit, NoRule))

StartGostTLSRelayClient(m, unitName, id, listenPort, dstHost, dstPort) ==
    Call(m, "systemd-run", id,
         Issue([m EXCEPT !.nextUnit = @ + 1, !.units = Put(@, unitName,
                    [ifn |-> id, mode |-> "client", listenPort |-> listenPort,
                     dstHost |-> dstHost, dstPort |-> dstPort, targetPort |-> 0])],
               "systemd-run", id, NoRule))

StartGostTLSRelayServer(m, unitName, id, listenPort, targetPort) ==
    Call(m, "systemd-run", id,
         Issue([m EXCEPT !.nextUnit = @ + 1, !.units = Put(@, unitName,
                    [ifn |-> id, mode |-> "server", listenPort |-> listenPort,
                     dstHost |-> "", dstPort |-> 0, targetPort |-> targetPort])],
               "systemd-run", id, NoRule))

\* formatUnitname: a name no unit had before
formatUnitname(m) == m.nextUnit

doSyncRemoveLocalUnderlay(m, ifname, state) ==
    LET m1 == StopSystemdServiceBestEffort(m, state.unit_name)
    IN  IF m1.st # "ok" THEN m1 ELSE deleteLocalUnderlayState(m1, ifname)

doSyncCreateLocalUnderlay(m, peer, ifname) ==
    LET cfg == peer.underlay
        unitName == formatUnitname(m)
    IN  IF m.st # "ok" THEN m
        ELSE IF cfg.provider = "gost_relay_client"
        THEN LET m1 == IF cfg.server_addr = "" THEN Call(m, "dns lookup", ifname, m) ELSE m
                 serverIP == IF cfg.server_addr = "" THEN peer.endpoint.host ELSE cfg.server_addr
                 m2 == StartGostTLSRelayClient(m1, unitName, ifname,
                                               cfg.listen_port, serverIP, cfg.server_port)
                 m3 == IF m2.st # "ok" THEN m2
                       ELSE setLocalUnderlayState(m2, ifname,
                                [unit_name |-> unitName, mode |-> "client",
                                 listen_port |-> cfg.listen_port, server_ip |-> serverIP,
                                 server_port |-> cfg.server_port])
             IN  \* { peerPublic: remotePeer.publicKey, endpoint: 127.0.0.1:port }
                 AssignWireGuardDevice(m3, ifname,
                     WgOptions(0, 0, peer.publicKey, Loopback(cfg.listen_port), 0, ""))
        ELSE IF cfg.provider = "gost_relay_server"
        THEN LET m1 == Call(m, "wg show dump", ifname,
                            IF ifname \in InNs(m) THEN m
                            ELSE Throw(m, "Could not find wireguard device"))
                 m2 == IF m1.st # "ok" THEN m1
                       ELSE StartGostTLSRelayServer(m1, unitName,
                                ifname, cfg.listen_port, m1.wg[ifname].listen)
             IN  IF m2.st # "ok" THEN m2
                 ELSE setLocalUnderlayState(m2, ifname,
                          [unit_name |-> unitName, mode |-> "server",
                           listen_port |-> cfg.listen_port, server_ip |-> "",
                           server_port |-> 0])
        ELSE Throw(m, "remoteUnderlay is undefined")

needRecreate(localState, remote) ==
    IF localState.mode = "client" /\ remote.provider = "gost_relay_client"
    THEN \/ localState.listen_port # remote.listen_port
         \/ localState.server_port # remote.server_port
         \/ (remote.server_addr # "" /\ localState.server_ip # remote.server_addr)
    ELSE IF localState.mode = "server" /\ remote.provider = "gost_relay_server"
    THEN localState.listen_port # remote.listen_port
    ELSE TRUE

doSyncPeerUnderlay(m, peer) ==
    IF m.st # "ok" THEN m
    ELSE LET ifname == peer.id
             got == getLocalUnderlayState(m, ifname)
             m1 == got.m
             localUnderlayState == got.v
             remoteUnderlay == peer.underlay
         IN  IF m1.st # "ok" THEN m1
             ELSE IF localUnderlayState = Undefined /\ remoteUnderlay.provider = "none" THEN m1
             ELSE IF localUnderlayState = Undefined
             THEN doSyncCreateLocalUnderlay(m1, peer, ifname)
             ELSE IF remoteUnderlay.provider = "none"
             THEN doSyncRemoveLocalUnderlay(m1, ifname, localUnderlayState)
             ELSE IF needRecreate(localUnderlayState, remoteUnderlay)
             THEN doSyncCreateLocalUnderlay(
                      doSyncRemoveLocalUnderlay(m1, ifname, localUnderlayState), peer, ifname)
             ELSE m1

\* Object.keys(localState.peers)[0]: the first peer line of the dump
doSyncPeerEndpoint(m, peer, ifname, localState) ==
    IF m.st # "ok" THEN m
    ELSE IF DOMAIN localState.peers = {}
    THEN Throw(m, "TypeError: Cannot read properties of undefined (reading 'keepalive')")
    ELSE LET peerPublicKey == Min(DOMAIN localState.peers)
             localPeerState == localState.peers[peerPublicKey]
         IN  \* an observed keepalive of "off" is undefined, never equal to a number
             IF localPeerState.keepalive = 0 \/ localPeerState.keepalive # peer.keepalive
             THEN Call(m, "wg set keepalive", ifname,
                       IF ifname \in InNs(m)
                       THEN Issue([m EXCEPT !.wg[ifname].peers[peerPublicKey].keepalive =
                                                peer.keepalive],
                                  "wg set keepalive", ifname, NoRule)
                       ELSE Throw(m, "Unable to modify interface: No such device"))
             ELSE m

\* --------------------------------------------------------------- peers
\* every -A line of the dump that names chainName and carries the tag is
\* replayed as a delete in chainName (rule.split(" ").slice(2))
RECURSIVE DeleteDumpedRules(_, _, _, _, _, _)
DeleteDumpedRules(m, lines, table, chainName, site, id) ==
    IF lines = {} \/ m.st # "ok" THEN m
    ELSE LET line == CHOOSE l \in lines : TRUE
         IN  DeleteDumpedRules(
                 tryDeleteIptablesRule(m, site, id,
                     [line EXCEPT !.table = table, !.chain = chainName]),
                 lines \ {line}, table, chainName, site, id)

CreatePeerInterface(m, peer) ==
    LET ifname == peer.id
        localWGKeys == getAllWireGuardKeys(m)
        found == {k \in localWGKeys : k.public = peer.publicKey}
    IN  IF found = {} THEN Throw(m, "No local WireGuard key for public key")
        ELSE LET privateKey == (CHOOSE k \in found : TRUE).private
                 m1 == CreateWireGuardDevice(m, ifname)
                 m2 == AssignWireGuardDevice(m1, ifname,
                           WgOptions(privateKey, peer.listenPort, peer.peerPublicKey,
                                     peer.endpoint, peer.keepalive, "0.0.0.0/0"))
                 m3 == UpWireGuardDevice(m2, ifname)
                 m4 == IF peer.listenPort # 0
                       THEN tryAppendIptablesRule(m3, "iptables -A peer", ifname,
                                                  PeerRule(ifname, peer.listenPort))
                       ELSE m3
             IN  IF peer.underlay.provider # "none" THEN doSyncPeerUnderlay(m4, peer) ELSE m4

CheckPeerInterface(m, peer, localState) ==
    LET m1 == doSyncPeerUnderlay(m, peer)
    IN  IF peer.underlay.provider = "none"
        THEN doSyncPeerEndpoint(m1, peer, peer.id, localState)
        ELSE m1

RECURSIVE SyncRemotePeers(_, _, _, _)
SyncRemotePeers(m, todo, peers, localWGStates) ==
    IF todo = {} \/ m.st # "ok" THEN m
    ELSE LET id == Min(todo)
             m1 == IF id \notin DOMAIN localWGStates
                   THEN CreatePeerInterface(m, peers[id])
                   ELSE CheckPeerInterface(m, peers[id], localWGStates[id])
         IN  SyncRemotePeers(m1, todo \ {id}, peers, localWGStates)

RemoveStaleInterface(m, ifname) ==
    LET m1 == tryDestroyDevice(m, ifname)
        m2 == Call(m1, "iptables-save", ifname, m1)
        lines == {l \in GetAllIPTablesRules(m1) :
                     /\ l.table = "filter"
                     /\ LineIncludesChain(l, "ns-INPUT")
                     /\ LineIncludesTag(l, TagPeer) /\ l.ifn = ifname}
    IN  DeleteDumpedRules(m2, lines, "filter", "ns-INPUT", "iptables -D peer", ifname)

RECURSIVE RemoveStaleInterfaces(_, _)
RemoveStaleInterfaces(m, stale) ==
    IF stale = {} \/ m.st # "ok" THEN m
    ELSE RemoveStaleInterfaces(RemoveStaleInterface(m, Min(stale)), stale \ {Min(stale)})

doSyncPeers(m, remotePeersNow) ==
    LET m1 == Call(m, "wg show all dump", 0, m)
        localWGStates == DumpAllWireGuardState(m)
        markedLocalStates == DOMAIN remotePeersNow \cap DOMAIN localWGStates
        m2 == SyncRemotePeers(m1, DOMAIN remotePeersNow, remotePeersNow, localWGStates)
    IN  RemoveStaleInterfaces(m2, DOMAIN localWGStates \ markedLocalStates)

\* -------------------------------------------------- OSPF state parser
\* A line of the birdc output is [blevel, parts]: the number of leading
\* tabs (getBlockLevel) and the words of line.trim().split(" "); a line
\* that trims to "" has no words.
Line(blevel, parts) == [blevel |-> blevel, parts |-> parts]
Part(parts, k) == IF k <= Len(parts) THEN parts[k] ELSE "undefined"
IndexOf(parts, w) == CHOOSE k \in 1..Len(parts) : parts[k] = w /\ \A j \in 1..(k - 1) : parts[j] # w
Has(parts, w) == \E k \in 1..Len(parts) : parts[k] = w
\* sline.startsWith(word + " ")
StartsWith(parts, w) == Len(parts) >= 2 /\ parts[1] = w

\* parseInt(x, 10) of the number words that occur; -1 stands for NaN
Numerals == {"0", "5", "10", "20"}
parseInt(w) == IF w = "0" THEN 0 ELSE IF w = "5" THEN 5 ELSE IF w = "10" THEN 10
               ELSE IF w = "20" THEN 20 ELSE -1

NewRouterInfo ==
    [routerId |-> "", distance |-> 0, vlinks |-> << >>, routers |-> << >>, stubnets |-> << >>,
     xnetworks |-> << >>, xrouters |-> << >>, externals |-> << >>, nssaExternals |-> << >>]

\* the entry of a `<kind> <name> metric <n>` line; ok = FALSE: an assert fails
MetricEntry(parts) ==
    [ok |-> Len(parts) = 4 /\ parts[3] = "metric" /\ parseInt(Part(parts, 4)) # -1,
     e |-> [name |-> Part(parts, 2), metric |-> parseInt(Part(parts, 4))]]

ExternalEntryType1(parts) ==
    [ok |-> parseInt(Part(parts, 4)) # -1,
     e |-> [network |-> Part(parts, 2), metric |-> parseInt(Part(parts, 4)),
            metricType |-> 1,
            via |-> IF Has(parts, "via") THEN Part(parts, IndexOf(parts, "via") + 1) ELSE "undefined",
            tag |-> IF Has(parts, "tag") THEN Part(parts, IndexOf(parts, "tag") + 1) ELSE "undefined"]]
\* the entry of an external / nssa-ext line
ExternalEntry(parts) ==
    [ok |-> parseInt(Part(parts, 4)) # -1,
     e |-> [network |-> Part(parts, 2), metric |-> parseInt(Part(parts, 4)),
            metricType |-> IF Has(parts, "metric2") THEN 2 ELSE 1,
            via |-> IF Has(parts, "via") THEN Part(parts, IndexOf(parts, "via") + 1) ELSE "undefined",
            tag |-> IF Has(parts, "tag") THEN Part(parts, IndexOf(parts, "tag") + 1) ELSE "undefined"]]

\* one level-2 line applied to the router under construction
RouterLine(info, parts) ==
    LET me == MetricEntry(parts)
        ee == ExternalEntry(parts)
    IN  IF StartsWith(parts, "distance")
        THEN [ok |-> parseInt(parts[2]) # -1, info |-> [info EXCEPT !.distance = parseInt(parts[2])]]
        ELSE IF StartsWith(parts, "vlink")
        THEN [ok |-> me.ok, info |-> [info EXCEPT !.vlinks = Append(@, me.e)]]
        ELSE IF StartsWith(parts, "router")
        THEN [ok |-> me.ok, info |-> [info EXCEPT !.routers = Append(@, me.e)]]
        ELSE IF StartsWith(parts, "stubnet")
        THEN [ok |-> me.ok, info |-> [info EXCEPT !.stubnets = Append(@, me.e)]]
        ELSE IF StartsWith(parts, "xnetwork")
        THEN [ok |-> me.ok, info |-> [info EXCEPT !.xnetworks = Append(@, me.e)]]
        ELSE IF StartsWith(parts, "xrouter")
        THEN [ok |-> me.ok, info |-> [info EXCEPT !.xrouters = Append(@, me.e)]]
        ELSE IF StartsWith(parts, "external")
        THEN [ok |-> ee.ok, info |-> [info EXCEPT !.externals = Append(@, ee.e)]]
        ELSE IF StartsWith(parts, "nssa-ext")
        THEN [ok |-> ee.ok, info |-> [info EXCEPT !.nssaExternals = Append(@, ee.e)]]
        ELSE [ok |-> TRUE, info |-> info]      \* unknown line: a warning

\* the loops return the reader index, the value and ok (FALSE: an assert threw)
RECURSIVE parseOSPFRouter(_, _, _)
parseOSPFRouter(lines, index, info) ==
    IF index > Len(lines) THEN [index |-> index, v |-> info, ok |-> TRUE]
    ELSE LET l == lines[index]
         IN  IF l.parts = << >> THEN parseOSPFRouter(lines, index + 1, info)
             ELSE IF l.blevel < 2 THEN [index |-> index, v |-> info, ok |-> TRUE]
             ELSE IF l.blevel # 2 THEN [index |-> index + 1, v |-> info, ok |-> FALSE]
             ELSE LET r == RouterLine(info, l.parts)
                  IN  IF r.ok THEN parseOSPFRouter(lines, index + 1, r.info)
                      ELSE [index |-> index + 1, v |-> info, ok |-> FALSE]

RECURSIVE parseOSPFArea(_, _, _)
parseOSPFArea(lines, index, routers) ==
    IF index > Len(lines) THEN [index |-> index, v |-> routers, ok |-> TRUE]
    ELSE LET l == lines[index]
         IN  IF l.parts = << >> THEN parseOSPFArea(lines, index + 1, routers)
             ELSE IF l.blevel < 1 THEN [index |-> index, v |-> routers, ok |-> TRUE]
             ELSE IF l.blevel # 1 THEN [index |-> index + 1, v |-> routers, ok |-> FALSE]
             ELSE IF StartsWith(l.parts, "router")
             THEN LET r == parseOSPFRouter(lines, index + 1, NewRouterInfo)
                  IN  IF r.ok
                      THEN parseOSPFArea(lines, r.index,
                                         Append(routers, [r.v EXCEPT !.routerId = l.parts[2]]))
                      ELSE [index |-> r.index, v |-> routers, ok |-> FALSE]
             ELSE parseOSPFArea(lines, index + 1, routers)

NoOspfResult == [areaRouterMap |-> [a \in {} |-> << >>], otherASBRs |-> << >>]

RECURSIVE parseOSPFStateFrom(_, _, _)
parseOSPFStateFrom(lines, index, acc) ==
    IF index > Len(lines) THEN [v |-> acc, ok |-> TRUE]
    ELSE LET l == lines[index]
         IN  IF l.parts = << >> THEN parseOSPFStateFrom(lines, index + 1, acc)
             ELSE IF l.blevel # 0 THEN [v |-> acc, ok |-> FALSE]
             ELSE IF StartsWith(l.parts, "area")
             THEN LET r == parseOSPFArea(lines, index + 1, << >>)
                  IN  IF r.ok
                      THEN parseOSPFStateFrom(lines, r.index,
                               [acc EXCEPT !.areaRouterMap = Put(@, l.parts[2], r.v)])
                      ELSE [v |-> acc, ok |-> FALSE]
             ELSE IF Len(l.parts) >= 2 /\ l.parts[1] = "other" /\ l.parts[2] = "ASBRs"
             THEN LET r == parseOSPFArea(lines, index + 1, << >>)
                  IN  IF r.ok
                      THEN parseOSPFStateFrom(lines, r.index,
                               [acc EXCEPT !.otherASBRs = @ \o r.v])
                      ELSE [v |-> acc, ok |-> FALSE]
             ELSE parseOSPFStateFrom(lines, index + 1, acc)

parseOSPFState(lines) == parseOSPFStateFrom(lines, 1, NoOspfResult)

NoOspfState == [doc |-> << >>, blanks |-> "none", lines |-> << >>, st |-> "none",
                out |-> NoOspfResult]

\* ----------------------------------------------------- ping processes
PingIfs == 1..MaxProbers
\* proc[i]: the child process of the PingRunner of interface i;
\* runner[i]: the map callback of i returned a runner, not undefined
NoPinger == [pc |-> "idle", ifnames |-> {}, done |-> {},
             proc |-> [i \in PingIfs |-> "none"], runner |-> [i \in PingIfs |-> FALSE]]

\* spawn() reported a failure it delivers as an 'error' event of the child
PendingError(p) == \E i \in PingIfs : p.proc[i] = "spawn failed"

\* PingRunner.start inside the try of the map callback; `outcome` is what
\* the environment makes of it
StartRunner(p, i, outcome) ==
    IF outcome = "no address"          \* GetInterfaceState or an assert throws: caught
    THEN [p EXCEPT !.done = @ \cup {i}]
    ELSE IF outcome = "spawn throws"   \* caught, this.child never set
    THEN [p EXCEPT !.done = @ \cup {i}]
    ELSE IF outcome = "spawn failed"   \* child object returned, 'error' event queued
    THEN [p EXCEPT !.done = @ \cup {i}, !.proc[i] = "spawn failed", !.runner[i] = TRUE]
    ELSE [p EXCEPT !.done = @ \cup {i}, !.proc[i] = "running", !.runner[i] = TRUE]

\* PingRunner.stop: child.kill() sends SIGTERM to a live child and returns
\* false for one that is gone; the reference is dropped in both cases
StopRunner(proc) == IF proc = "running" THEN "signalled" ELSE proc
\* for (const info of runners) info.runner?.stop(); then the return
StopAll(p) ==
    [p EXCEPT !.pc = "returned",
              !.proc = [i \in PingIfs |-> IF p.runner[i] THEN StopRunner(p.proc[i]) ELSE p.proc[i]]]

\* ------------------------------------------------------ veth addresses
\* A CIDR string "a.b.c.d/p" is the tuple <<a, b, c, d, p>>.
\* new Address4(cidr): the dotted quad and the prefix length after "/"
Address4(cidr) == [address |-> <<cidr[1], cidr[2], cidr[3], cidr[4]>>, subnetMask |-> cidr[5]]
bigInt(address) == address[1] * 16777216 + address[2] * 65536 + address[3] * 256 + address[4]
startAddressUnmasked(addr) == bigInt(addr.address)
\* the address with the host bits cleared
startAddress(addr) ==
    bigInt(addr.address) - (bigInt(addr.address) % (2 ^ (32 - addr.subnetMask)))
\* Address4.fromBigInt(n).addressMinusSuffix
fromBigInt(n) == <<n \div 16777216, (n \div 65536) % 256, (n \div 256) % 256, n % 256>>

\* the assert on the prefix length throws; else [first/30, second/30]
GetAllAddressFromLinkNetworkCIDR(networkCIDR) ==
    LET addr == Address4(networkCIDR)
        networkAddressRaw == startAddress(addr)
    IN  IF addr.subnetMask # 30 THEN << >>
        ELSE << fromBigInt(networkAddressRaw + 1) \o <<30>>,
                fromBigInt(networkAddressRaw + 2) \o <<30>> >>

NoAddress == << >>
NoVethLink == [cidr |-> << >>, st |-> "none", host0 |-> NoAddress, peer1 |-> NoAddress,
               peerInNs |-> FALSE, error |-> ""]

\* CreateVethDevice(namespace, name, vethNetwork) with the addresses it
\* assigns; `failAt` is the sudoCall that exits non-zero (0: none)
CreateVethDeviceAt(l, failAt) ==
    LET step(n) == IF failAt = n THEN "failed" ELSE "ok"
        addrs == GetAllAddressFromLinkNetworkCIDR(l.cidr)
        l1 == IF step(1) = "failed" THEN [l EXCEPT !.st = "failed", !.error = "ip link add"]
              ELSE [l EXCEPT !.st = "created"]
        l2 == IF l1.st # "created" THEN l1
              ELSE IF step(2) = "failed" THEN [l1 EXCEPT !.st = "failed", !.error = "ip link set netns"]
              ELSE [l1 EXCEPT !.peerInNs = TRUE]
        l3 == IF l2.st # "created" THEN l2
              ELSE IF addrs = << >>
              THEN [l2 EXCEPT !.st = "failed", !.error = "AssertionError: Invalid LinkCIDR"]
              ELSE IF step(3) = "failed" THEN [l2 EXCEPT !.st = "failed", !.error = "ip addr add host"]
              ELSE [l2 EXCEPT !.host0 = addrs[1]]
        l4 == IF l3.st # "created" THEN l3
              ELSE IF step(4) = "failed" THEN [l3 EXCEPT !.st = "failed", !.error = "ip addr add peer"]
              ELSE [l3 EXCEPT !.peer1 = addrs[2]]
    IN  IF l4.st # "created" THEN l4
        ELSE IF step(5) = "failed" THEN [l4 EXCEPT !.st = "failed", !.error = "ip link set up"]
        ELSE [l4 EXCEPT !.st = "up"]

\* ---------------------------------------------------------------- veth
isEmptyString(x) == x \in {"undefined", ""}

CreateVethDevice(m) ==
    LET m1 == Call(m, "ip link add veth", 0,
                   IF m.veth0 THEN Throw(m, "RTNETLINK answers: File exists")
                   ELSE Issue([m EXCEPT !.veth0 = TRUE], "ip link add", 0, NoRule))
    IN  Call(m1, "veth setup", 0, m1)

RemoveVeth(m) ==
    LET m1 == Call(m, "ip -j link", 0,
                   IF m.veth0
                   THEN Call(m, "ip link del veth", 0,
                             Issue([m EXCEPT !.veth0 = FALSE], "ip link del", 0, NoRule))
                   ELSE m)
        m2 == Call(m1, "iptables-save", 0, m1)
        rules == GetAllIPTablesRules(m1)
        tagged(table, chainName) ==
            {l \in rules : /\ l.table = table /\ LineIncludesChain(l, chainName)
                           /\ LineIncludesTag(l, TagVeth)}
        m3 == DeleteDumpedRules(m2, tagged("nat", "ns-POSTROUTING"), "nat",
                                "ns-POSTROUTING", "iptables -D veth", 0)
        m4 == DeleteDumpedRules(m3, tagged("filter", "ns-FORWARD"), "filter",
                                "ns-FORWARD", "iptables -D veth", 0)
    IN  DeleteDumpedRules(m4, tagged("filter", "ns-INPUT"), "filter",
                          "ns-INPUT", "iptables -D veth", 0)

InstallVeth(m) ==
    LET m1 == CreateVethDevice(m)
        m2 == tryAppendIptablesRule(m1, "iptables -A veth 1", 0, VethNatAccept)
        m3 == Call(m2, "ip addr show eth", 0, m2)
        m4 == tryAppendIptablesRule(m3, "iptables -A veth 2", 0, VethNatSnat)
        m5 == tryAppendIptablesRule(m4, "iptables -A veth 3", 0, VethForward)
    IN  tryAppendIptablesRule(m5, "iptables -A veth 4", 0, VethInputOspf)

\* a failure of GetInterfaceState for veth0 is caught and read as "absent"
doSyncVeth(m, rc) ==
    IF m.st # "ok" THEN m
    ELSE LET swallowed == m.fault = <<"ip addr show veth0", 0>>
             m0 == IF swallowed THEN [m EXCEPT !.faulted = TRUE] ELSE m
             state == m.veth0 /\ ~swallowed
         IN  IF state /\ isEmptyString(rc.vethCIDR) THEN RemoveVeth(m0)
             ELSE IF ~state /\ ~isEmptyString(rc.vethCIDR) THEN InstallVeth(m0)
             ELSE m0

\* ------------------------------------------------------ ping aggregator
\* Times are in tenths of a millisecond; costs and offsets in tenths too.
RECURSIVE SumSeq(_)
SumSeq(q) == IF q = << >> THEN 0 ELSE Head(q) + SumSeq(Tail(q))

RECURSIVE Insert(_, _)
Insert(x, q) == IF q = << >> THEN <<x>>
                ELSE IF x <= Head(q) THEN <<x>> \o q
                ELSE <<Head(q)>> \o Insert(x, Tail(q))

SortNone(q) == q
RECURSIVE SortAscending(_)
SortAscending(q) == IF q = << >> THEN << >> ELSE Insert(Head(q), SortAscending(Tail(q)))

NaN == [nan |-> TRUE, v |-> 0]
Num(v) == [nan |-> FALSE, v |-> v]

\* undefined for no samples, else the mean without floor(n * 0.1) samples per end
TrimmedMean(numbers) ==
    IF Len(numbers) < 1 THEN NaN
    ELSE LET sorted == SortAscending(numbers)
             trimCount == Len(sorted) \div 10
             trimmed == SubSeq(sorted, trimCount + 1, Len(sorted) - trimCount)
         IN  IF Len(trimmed) < 1 THEN Num(SumSeq(sorted) \div Len(sorted))
             ELSE Num(SumSeq(trimmed) \div Len(trimmed))

\* one entry per requested ifname, undefined (NaN here) when the prober did
\* not start or collected nothing
CalculateMultiplePings(ifnames, samples) ==
    [i \in ifnames |-> TrimmedMean(samples[i])]

\* ------------------------------------------------------ router container
\* router: "absent", "created" (never started), "exited", "running"
\* the unit list is checked, `systemctl stop` is best effort
tryStopContainerFromSystemd(m) ==
    LET m1 == Call(m, "systemctl list-units", 0, m)
    IN  IF m1.st # "ok" THEN m1
        ELSE IF m1.fault = <<"systemctl stop router", 0>> THEN [m1 EXCEPT !.faulted = TRUE]
        ELSE m1

shutdownRouterContainer(m, needClearTemp) ==
    LET m1 == Call(m, "podman inspect", 0, m)
    IN  IF m1.st # "ok" \/ m1.router = "absent" THEN m1
        ELSE LET m2 == tryStopContainerFromSystemd(m1)
                 m3 == Call(m2, "podman rm -f", 0,
                            [Step(m2, "podman rm -f") EXCEPT !.router = "absent"])
             IN  IF needClearTemp THEN Call(m3, "rm -rf tempdir", 0, m3) ELSE m3

\* podman create, inspect, then `systemd-run ... podman start {Id}`
startRouterContainerWithSystemd(m) ==
    LET m1 == Call(m, "podman create", 0,
                   IF m.router # "absent"
                   THEN Throw(Step(m, "podman create"), "the container name is already in use")
                   ELSE [Step(m, "podman create") EXCEPT !.router = "created"])
        m2 == Call(m1, "podman inspect created", 0, m1)
    IN  Call(m2, "systemd-run podman start", 0,
             [Step(m2, "podman start") EXCEPT !.router = "running"])

EnsureRouterContainerAlways(m) ==
    Call(m, "EnsureRouterContainer", 0,
         LET m1 == IF m.router # "absent" THEN shutdownRouterContainer(m, FALSE) ELSE m
             m2 == startRouterContainerWithSystemd(m1)
         IN  Call(m2, "podman inspect started", 0, m2))
\* the site "EnsureRouterContainer" is the first inspectRouterContainer
EnsureRouterContainer(m) ==
    Call(m, "EnsureRouterContainer", 0,
         IF m.router = "running" THEN m
         ELSE LET m1 == IF m.router # "absent" THEN shutdownRouterContainer(m, FALSE) ELSE m
                  m2 == startRouterContainerWithSystemd(m1)
              IN  Call(m2, "podman inspect started", 0, m2))

\* --------------------------------------------------------- routing config
Plus(a, b) == IF a.nan \/ b.nan THEN NaN ELSE Num(a.v + b.v)
\* Math.max and Math.min return NaN when an argument is NaN
MathMax(a, b) == IF a.nan \/ b.nan THEN NaN ELSE IF a.v >= b.v THEN a ELSE b
MathMin(a, b) == IF a.nan \/ b.nan THEN NaN ELSE IF a.v <= b.v THEN a ELSE b

costMapEntry(peer, pingResultMap) ==
    LET cost0 == IF peer.ospf.defined THEN Num(peer.ospf.cost) ELSE Num(DefaultCost * 10)
        offset == IF peer.ospf.defined THEN Num(peer.ospf.offset) ELSE Num(0)
        cost == IF peer.id \in DOMAIN pingResultMap THEN pingResultMap[peer.id] ELSE cost0
    IN  MathMin(MathMax(Num(MinCost * 10), Plus(cost, offset)), Num(MaxCost * 10))

\* useCost: 1000 when the entry is not finite, else Math.floor
useCost(entry) == IF entry.nan THEN DefaultCost ELSE entry.v \div 10

toPingInterfaces(peers) == {i \in DOMAIN peers : peers[i].ospf.defined /\ peers[i].ospf.ping}

\* the rendered areas: area id -> (ifname -> cost); ifname 0 is {ns}-veth1.
\* Every peer entry is rendered with `type ptp` and, having a bfdConfig
\* entry, with `bfd yes`.  ospfAreaConfig[areaId] = {} comes after the peers.
ospfAreaConfig(rc, peers, costMap) ==
    LET area0 == [a \in {0} |-> [i \in DOMAIN peers |-> useCost(costMap[i])]]
    IN  IF rc.vethCIDR # "undefined" /\ rc.ospf.defined
        THEN Put(area0, rc.ospf.area, [i \in {0} |-> rc.ospf.cost])
        ELSE area0

NoBird == [costMap |-> [i \in {} |-> NaN], areas |-> [a \in {} |-> 0]]

\* the same with the reload issued before the new config is in place
doSyncBirdReloadFirst(m, rc, peers, samples) ==
    LET pingResultMap == CalculateMultiplePings(toPingInterfaces(peers), samples)
        costMap == [i \in DOMAIN peers |-> costMapEntry(peers[i], pingResultMap)]
        m0 == Call(m, "birdc configure", 0, Step(m, "birdc configure"))
        m1 == Call(m0, "writeFile bird.conf", 0, [m0 EXCEPT !.tmp = @ \cup {"bird.conf"}])
        m2 == Call(m1, "mv bird.conf", 0,
                   [Step(m1, "mv bird.conf") EXCEPT
                        !.tmp = @ \ {"bird.conf"},
                        !.bird = [costMap |-> costMap,
                                  areas |-> ospfAreaConfig(rc, peers, costMap)]])
    IN  EnsureRouterContainer(m2)
doSyncBird(m, rc, peers, samples) ==
    LET pingResultMap == CalculateMultiplePings(toPingInterfaces(peers), samples)
        costMap == [i \in DOMAIN peers |-> costMapEntry(peers[i], pingResultMap)]
        m1 == Call(m, "writeFile bird.conf", 0, [m EXCEPT !.tmp = @ \cup {"bird.conf"}])
        m2 == Call(m1, "mv bird.conf", 0,
                   [Step(m1, "mv bird.conf") EXCEPT
                        !.tmp = @ \ {"bird.conf"},
                        !.bird = [costMap |-> costMap,
                                  areas |-> ospfAreaConfig(rc, peers, costMap)]])
        m3 == EnsureRouterContainer(m2)
    IN  Call(m3, "birdc configure", 0, Step(m3, "birdc configure"))

\* the links collectTelemetry posts: one per fetched peer whose interface is
\* in the dump, ping `pingResultMap.get(ifname) ?? -1` (rx, tx left out)
telemetryLinks(m, peers, samples) ==
    LET filteredPeers == DOMAIN peers \cap InNs(m)
        pingResultMap == CalculateMultiplePings(filteredPeers, samples)
    IN  [i \in filteredPeers |->
            [id |-> i,
             ping |-> IF pingResultMap[i].nan THEN Num(-1) ELSE pingResultMap[i]]]

\* Object.values(p.localState.peers)[0].rx throws for an empty peer table
collectTelemetry(m, peers) ==
    LET m1 == Call(m, "wg show all dump (telemetry)", 0, Step(m, "ping window"))
        filteredPeers == DOMAIN peers \cap InNs(m)
        m2 == IF m1.st # "ok" THEN m1
              ELSE IF \E i \in filteredPeers : DOMAIN m.wg[i].peers = {}
              THEN Throw(m1, "TypeError: Cannot read properties of undefined (reading 'rx')")
              ELSE Call(m1, "POST link_telemetry", 0, Step(m1, "POST link_telemetry"))
        m3 == Call(m2, "podman inspect", 0, m2)
        m4 == Call(m3, "birdc show ospf state", 0, m3)
    IN  IF m3.st = "ok" /\ m3.router = "absent" THEN m3
        ELSE Call(m4, "POST router_telemetry", 0, Step(m4, "POST router_telemetry"))

\* ---------------------------------------------------------------- tick
doSyncOnce(m, rc, peers, samples) ==
    LET m1 == EnsurePrerequisites(m)
        m2 == doSyncWireGuardKeys(m1, KeyPoolSize)
        m3 == Call(m2, "GET node/config", 0, m2)
        m4 == Call(m3, "GET node/peers", 0, m3)
        m5 == doSyncExitNode(m4, rc)
        m6 == doSyncVeth(m5, rc)
        m7 == doSyncPeers(m6, peers)
        m8 == doSyncBird(m7, rc, peers, samples)
    IN  collectTelemetry(m8, peers)

\* ------------------------------------------------------- environment
StaleIds == {3}                   \* a {ns}-N that no peer ever has
IfIds == PeerIds \cup StaleIds

GlobalSites ==
    {"EnsureNetNs", "EnsureIPForward", "EnsureTempDir", "iptables -C TCPMSS",
     "iptables -A TCPMSS", "wg genkey", "wg pubkey", "POST sync_wireguard_keys",
     "GET node/config", "GET node/peers", "iptables -C MASQUERADE",
     "iptables -A MASQUERADE", "iptables -D MASQUERADE", "ip addr show veth0",
     "ip -j link", "ip link del veth", "iptables-save", "iptables -D veth",
     "ip link add veth", "veth setup", "iptables -A veth 1", "iptables -A veth 2",
     "iptables -A veth 3", "iptables -A veth 4", "ip addr show eth",
     "wg show all dump", "systemctl show", "systemctl stop",
     "writeFile bird.conf", "mv bird.conf", "EnsureRouterContainer",
     "birdc configure", "wg show all dump (telemetry)", "POST link_telemetry",
     "podman inspect", "birdc show ospf state", "POST router_telemetry"}

ChainSites == {"iptables -N", "iptables -I"}

\* calls made for the interface of a listed peer
PeerSites ==
    {"ip link add", "ip link set netns", "ip addr add", "ip link set mtu",
     "writeFile key", "dns lookup", "wg set", "ip link set up", "iptables -A peer",
     "systemd-run", "wg show dump", "wg set keepalive"}

\* calls made for an interface that is removed as stale
StaleSites == {"ip -j link", "ip link del", "iptables-save", "iptables -D peer"}

FaultyChains == {1, Len(AgentChains)}

FaultSites ==
    {<<s, 0>> : s \in GlobalSites}
        \cup {<<s, k>> : s \in ChainSites, k \in FaultyChains}
        \cup {<<s, i>> : s \in PeerSites, i \in PeerIds}
        \cup {<<s, i>> : s \in StaleSites, i \in IfIds}

NodeOspf == [defined |-> TRUE, area |-> 1, cost |-> 10]
VethCIDRs == {"undefined", "", "10.1.0.0/30"}

PeerRecord(id, publicKey, peerPublicKey, listenPort, underlay, ospf) ==
    [id |-> id, publicKey |-> publicKey, peerPublicKey |-> peerPublicKey,
     listenPort |-> listenPort, keepalive |-> 25, endpoint |-> RemoteEndpoint,
     underlay |-> underlay, ospf |-> ospf]

PeerRecords(id) ==
    {PeerRecord(id, k, pk, lp, u, NoOspf) :
        k \in PublicKeys, pk \in PeerPublicKeys, lp \in ListenPorts, u \in Underlays}

NoSamples == [i \in PeerIds |-> << >>]
NoTick == [status |-> "none", faulted |-> FALSE, error |-> "", issued |-> {}]

\* the node after the start-up sweep of ServiceMain, before the first tick
Init ==
    /\ remoteConfig = [exitNode |-> FALSE, vethCIDR |-> "undefined", ospf |-> NodeOspf]
    /\ remotePeers = [i \in {} |-> 0]
    /\ wgkey = {}
    /\ simplekv = [k \in {} |-> 0]
    /\ wg = [i \in {} |-> 0]
    /\ veth0 = FALSE
    /\ iptables = {}
    /\ chains = {}
    /\ units = [u \in {} |-> 0]
    /\ nextUnit = 1
    /\ posted = {}
    /\ bird = NoBird
    /\ router = "absent"
    /\ probe = NoSamples
    /\ tick = NoTick
    /\ fresh = FALSE
    /\ dropped = NoRule
    /\ updates = 0
    /\ drifts = 0
    /\ faults = 0
    /\ loop = "sleeping"
    /\ vethLink = NoVethLink
    /\ pinger = NoPinger
    /\ ospfState = NoOspfState
    /\ tmpfiles = {}

\* calls whose failure the code is meant to ignore (StopSystemdServiceBestEffort)
BestEffortSites == {"systemctl stop"}

\* what a tick that ran to machine m leaves behind
Commit(m) ==
    /\ wgkey' = m.wgkey
    /\ simplekv' = m.simplekv
    /\ wg' = m.wg
    /\ veth0' = m.veth0
    /\ iptables' = m.iptables
    /\ chains' = m.chains
    /\ units' = m.units
    /\ nextUnit' = m.nextUnit
    /\ posted' = m.posted
    /\ bird' = m.bird
    /\ router' = m.router
    /\ tmpfiles' = m.tmp
    /\ tick' = [status |-> IF m.st = "ok" THEN "completed" ELSE "aborted",
                faulted |-> m.faulted,
                error |-> IF ~m.faulted THEN m.error
                          ELSE IF m.fault[1] \in BestEffortSites THEN "best-effort fault"
                          ELSE "external fault",
                issued |-> m.issued]
    /\ fresh' = TRUE
    /\ faults' = IF m.faulted THEN faults + 1 ELSE faults

\* one iteration of the ServiceMain loop
Tick ==
    /\ \E f \in (IF faults < MaxFaults THEN FaultSites ELSE {}) \cup {NoFault} :
           Commit(doSyncOnce(Machine(f), remoteConfig, remotePeers, NoSamples))
    /\ probe' = NoSamples
    /\ UNCHANGED <<remoteConfig, remotePeers, dropped, updates, drifts, loop, vethLink, pinger, ospfState>>

Kernel == <<wgkey, simplekv, wg, veth0, iptables, chains, units, nextUnit, posted, bird, router>>

\* the controller changes the desired state between two ticks
ControllerChange ==
    /\ updates < MaxUpdates
    /\ updates' = updates + 1
    /\ fresh' = FALSE
    /\ dropped' = NoRule
    /\ UNCHANGED <<Kernel, probe, tick, drifts, faults, loop, vethLink, pinger, ospfState, tmpfiles>>

SetExitNode ==
    /\ ControllerChange
    /\ remoteConfig' = [remoteConfig EXCEPT !.exitNode = ~@]
    /\ UNCHANGED remotePeers

SetVethCIDR ==
    /\ ControllerChange
    /\ \E c \in VethCIDRs \ {remoteConfig.vethCIDR} :
           remoteConfig' = [remoteConfig EXCEPT !.vethCIDR = c]
    /\ UNCHANGED remotePeers

\* the controller hands out public keys the node has posted
AddPeer ==
    /\ ControllerChange
    /\ \E id \in PeerIds \ DOMAIN remotePeers : \E p \in PeerRecords(id) :
           /\ p.publicKey \in posted
           /\ remotePeers' = Put(remotePeers, id, p)
    /\ UNCHANGED remoteConfig

\* the controller changes one attribute of a peer
ChangePeer ==
    /\ ControllerChange
    /\ \E id \in DOMAIN remotePeers : \E p \in PeerRecords(id) \ {remotePeers[id]} :
           /\ Cardinality({f \in DOMAIN p : p[f] # remotePeers[id][f]}) = 1
           /\ p.publicKey \in posted
           /\ remotePeers' = Put(remotePeers, id, p)
    /\ UNCHANGED remoteConfig

RemovePeer ==
    /\ ControllerChange
    /\ \E id \in DOMAIN remotePeers : remotePeers' = Drop(remotePeers, id)
    /\ UNCHANGED remoteConfig

\* an adversary changes kernel state between two ticks
ExternalChange ==
    /\ drifts < MaxDrift
    /\ drifts' = drifts + 1
    /\ fresh' = FALSE
    /\ UNCHANGED <<remoteConfig, remotePeers, updates, probe, tick, faults, loop, vethLink, pinger, ospfState, tmpfiles>>

ExternalDeleteRule ==
    /\ ExternalChange
    /\ \E r \in {x \in iptables : ~x.ns /\ x.jump = ""} :
           /\ iptables' = iptables \ {r}
           /\ dropped' = r
    /\ UNCHANGED <<wgkey, simplekv, wg, veth0, chains, units, nextUnit, posted, bird, router>>

ExternalDeleteInterface ==
    /\ ExternalChange
    /\ \E id \in DOMAIN wg : wg' = Drop(wg, id)
    /\ UNCHANGED <<dropped, wgkey, simplekv, veth0, iptables, chains, units, nextUnit, posted, bird, router>>

\* `ip -n ns link add {ns}-N type wireguard` for an N outside the peer set
ExternalAddInterface ==
    /\ ExternalChange
    /\ \E id \in IfIds \ (DOMAIN wg \cup DOMAIN remotePeers) :
           wg' = Put(wg, id, [NewDevice EXCEPT !.inns = TRUE])
    /\ UNCHANGED <<dropped, wgkey, simplekv, veth0, iptables, chains, units, nextUnit, posted, bird, router>>

Next ==
    \/ Tick
    \/ SetExitNode
    \/ SetVethCIDR
    \/ AddPeer
    \/ ChangePeer
    \/ RemovePeer
    \/ ExternalDeleteRule
    \/ ExternalDeleteInterface
    \/ ExternalAddInterface

Spec == Init /\ [][Next]_vars

\* ------------------------------------------------------ service loop
\* ServiceMain: for (;;) { try { doSyncOnce } catch { log }; sleep(60000) }.
\* The tick and the sleep are separate steps here.
AfterTickNoCatch(m) == IF m.st = "ok" THEN "sleeping" ELSE "exited"
\* where the loop stands after a tick that ran to machine m: the catch
\* swallows whatever doSyncOnce threw
AfterTick(m) == "sleeping"

ServiceTick ==
    /\ loop = "ticking"
    /\ \E f \in (IF faults < MaxFaults THEN FaultSites ELSE {}) \cup {NoFault} :
           LET m == doSyncOnce(Machine(f), remoteConfig, remotePeers, NoSamples)
           IN  Commit(m) /\ loop' = AfterTick(m)
    /\ probe' = NoSamples
    /\ UNCHANGED <<remoteConfig, remotePeers, dropped, updates, drifts, vethLink, pinger, ospfState>>

\* await sleep(60000): the timer fires
ServiceSleep ==
    /\ loop = "sleeping"
    /\ loop' = "ticking"
    /\ UNCHANGED <<remoteConfig, remotePeers, Kernel, probe, tick, fresh, dropped,
                   updates, drifts, faults, vethLink, pinger, ospfState, tmpfiles>>

NextService ==
    \/ ServiceTick
    \/ ServiceSleep
    \/ SetExitNode
    \/ SetVethCIDR
    \/ AddPeer

SpecService == Init /\ [][NextService]_vars /\ WF_vars(ServiceSleep)

\* ------------------------------------------------- routing stage alone
\* peer.extra.ospf as the controller may send it (tenths): a fractional
\* cost, the default, a cost above 65535; offsets that push below 1
PeerOspfs ==
    {NoOspf} \cup
    {[defined |-> TRUE, cost |-> c, ping |-> p, offset |-> o] :
        c \in {15, 10000, 700000}, p \in BOOLEAN, o \in {0, 50, -20000}}

\* what the probes may collect in their 10 s (tenths of a ms); nothing when
\* a probe did not start or no reply came back
SampleSeqs ==
    {<< >>, <<273>>, <<120, 273, 300>>, <<300, 120>>,
     <<10, 1000, 10, 10, 10, 10, 10, 10, 10, 10>>,
     <<10, 200, 200, 200, 200, 200, 200, 200, 200, 200, 9000>>}

InitBird ==
    /\ remoteConfig \in {[exitNode |-> FALSE, vethCIDR |-> c, ospf |-> NodeOspf] : c \in VethCIDRs}
    /\ remotePeers \in
           {[i \in PeerIds |-> PeerRecord(i, 1, 201, 0, NoUnderlay, o)] : o \in PeerOspfs}
    /\ wgkey = {}
    /\ simplekv = [k \in {} |-> 0]
    /\ wg = [i \in {} |-> 0]
    /\ veth0 = FALSE
    /\ iptables = {}
    /\ chains = {}
    /\ units = [u \in {} |-> 0]
    /\ nextUnit = 1
    /\ posted = {}
    /\ bird = NoBird
    /\ router = "absent"
    /\ probe = NoSamples
    /\ tick = NoTick
    /\ fresh = FALSE
    /\ dropped = NoRule
    /\ updates = 0
    /\ drifts = 0
    /\ faults = 0
    /\ loop = "sleeping"
    /\ vethLink = NoVethLink
    /\ pinger = NoPinger
    /\ ospfState = NoOspfState
    /\ tmpfiles = {}

\* doSyncBird on its own, with whatever the probes collected
SyncBird ==
    /\ \E samples \in [PeerIds -> SampleSeqs] :
           LET m == doSyncBird(Machine(NoFault), remoteConfig, remotePeers, samples)
           IN  /\ bird' = m.bird
               /\ router' = m.router
               /\ tmpfiles' = m.tmp
               /\ probe' = samples
    /\ UNCHANGED <<remoteConfig, remotePeers, wgkey, simplekv, wg, veth0, iptables, chains,
                   units, nextUnit, posted, tick, fresh, dropped, updates, drifts, faults, loop, vethLink, pinger, ospfState>>

NextBird == SyncBird

SpecBird == InitBird /\ [][NextBird]_vars

\* ------------------------------------------ routing stage, any node area
\* remoteConfig.ospf.area is any number (z.number()); 0 is the backbone
OspfAreas == {0, 1, 2}

InitAreas ==
    /\ remoteConfig \in {[exitNode |-> FALSE, vethCIDR |-> c, ospf |-> [NodeOspf EXCEPT !.area = a]] :
                          c \in VethCIDRs, a \in OspfAreas}
    /\ remotePeers \in
           {[i \in PeerIds |-> PeerRecord(i, 1, 201, 0, NoUnderlay, o)] : o \in PeerOspfs}
    /\ wgkey = {}
    /\ simplekv = [k \in {} |-> 0]
    /\ wg = [i \in {} |-> 0]
    /\ veth0 = FALSE
    /\ iptables = {}
    /\ chains = {}
    /\ units = [u \in {} |-> 0]
    /\ nextUnit = 1
    /\ posted = {}
    /\ bird = NoBird
    /\ router = "absent"
    /\ probe = NoSamples
    /\ tick = NoTick
    /\ fresh = FALSE
    /\ dropped = NoRule
    /\ updates = 0
    /\ drifts = 0
    /\ faults = 0
    /\ loop = "sleeping"
    /\ vethLink = NoVethLink
    /\ pinger = NoPinger
    /\ ospfState = NoOspfState
    /\ tmpfiles = {}

NextAreas == SyncBird

SpecAreas == InitAreas /\ [][NextAreas]_vars

\* ----------------------------------------------- exit-node stage alone
\* rules the kernel may hold when the stage runs
ExitStageRules ==
    {MasqueradeRule, VethNatAccept, VethNatSnat, VethForward, PeerRule(1, 51820),
     JumpRule("nat", "POSTROUTING"), TcpMssRule}

InitExit ==
    /\ remoteConfig \in {[exitNode |-> b, vethCIDR |-> "undefined", ospf |-> NodeOspf] : b \in BOOLEAN}
    /\ remotePeers = [i \in {} |-> 0]
    /\ wgkey = {}
    /\ simplekv = [k \in {} |-> 0]
    /\ wg = [i \in {} |-> 0]
    /\ veth0 = FALSE
    /\ iptables \in SUBSET ExitStageRules
    /\ chains = {<<"nat", "POSTROUTING">>}
    /\ units = [u \in {} |-> 0]
    /\ nextUnit = 1
    /\ posted = {}
    /\ bird = NoBird
    /\ router = "absent"
    /\ probe = NoSamples
    /\ tick = NoTick
    /\ fresh = FALSE
    /\ dropped = NoRule
    /\ updates = 0
    /\ drifts = 0
    /\ faults = 0
    /\ loop = "sleeping"
    /\ vethLink = NoVethLink
    /\ pinger = NoPinger
    /\ ospfState = NoOspfState
    /\ tmpfiles = {}

\* doSyncExitNode on its own
SyncExitNode ==
    /\ \E f \in (IF faults < MaxFaults
                 THEN {<<"iptables -C MASQUERADE", 0>>, <<"iptables -A MASQUERADE", 0>>,
                       <<"iptables -D MASQUERADE", 0>>}
                 ELSE {}) \cup {NoFault} :
           Commit(doSyncExitNode(Machine(f), remoteConfig))
    /\ UNCHANGED <<remoteConfig, remotePeers, probe, dropped, updates, drifts, loop, vethLink, pinger, ospfState>>

NextExit == SyncExitNode \/ SetExitNode

SpecExit == InitExit /\ [][NextExit]_vars

\* --------------------------------------------- veth addressing alone
\* 10.1.c.d/p around the ends of the octet and around prefix length 30
VethLinkCIDRs ==
    {<<10, 1, c, d, p>> : c \in {0, 255}, d \in (0..7) \cup (252..255), p \in {24, 29, 30, 31, 32}}

InitVeth ==
    /\ remoteConfig = [exitNode |-> FALSE, vethCIDR |-> "undefined", ospf |-> NodeOspf]
    /\ remotePeers = [i \in {} |-> 0]
    /\ wgkey = {}
    /\ simplekv = [k \in {} |-> 0]
    /\ wg = [i \in {} |-> 0]
    /\ veth0 = FALSE
    /\ iptables = {}
    /\ chains = {}
    /\ units = [u \in {} |-> 0]
    /\ nextUnit = 1
    /\ posted = {}
    /\ bird = NoBird
    /\ router = "absent"
    /\ probe = NoSamples
    /\ tick = NoTick
    /\ fresh = FALSE
    /\ dropped = NoRule
    /\ updates = 0
    /\ drifts = 0
    /\ faults = 0
    /\ loop = "sleeping"
    /\ vethLink \in {[NoVethLink EXCEPT !.cidr = c] : c \in VethLinkCIDRs}
    /\ pinger = NoPinger
    /\ ospfState = NoOspfState
    /\ tmpfiles = {}

\* CreateVethDevice on its own
CreateVeth ==
    /\ vethLink.st = "none"
    /\ \E failAt \in 0..5 : vethLink' = CreateVethDeviceAt(vethLink, failAt)
    /\ veth0' = (vethLink'.st # "failed" \/ vethLink'.error # "ip link add")
    /\ UNCHANGED <<remoteConfig, remotePeers, wgkey, simplekv, wg, iptables, chains, units,
                   nextUnit, posted, bird, router, probe, tick, fresh, dropped, updates,
                   drifts, faults, loop, pinger, ospfState, tmpfiles>>

NextVeth == CreateVeth

SpecVeth == InitVeth /\ [][NextVeth]_vars

\* ------------------------------------------------ ping aggregator alone
InitPing ==
    /\ remoteConfig = [exitNode |-> FALSE, vethCIDR |-> "undefined", ospf |-> NodeOspf]
    /\ remotePeers = [i \in {} |-> 0]
    /\ wgkey = {}
    /\ simplekv = [k \in {} |-> 0]
    /\ wg = [i \in {} |-> 0]
    /\ veth0 = FALSE
    /\ iptables = {}
    /\ chains = {}
    /\ units = [u \in {} |-> 0]
    /\ nextUnit = 1
    /\ posted = {}
    /\ bird = NoBird
    /\ router = "absent"
    /\ probe = NoSamples
    /\ tick = NoTick
    /\ fresh = FALSE
    /\ dropped = NoRule
    /\ updates = 0
    /\ drifts = 0
    /\ faults = 0
    /\ loop = "ticking"
    /\ vethLink = NoVethLink
    /\ pinger = NoPinger
    /\ ospfState = NoOspfState
    /\ tmpfiles = {}

PingFrame ==
    UNCHANGED <<remoteConfig, remotePeers, Kernel, probe, tick, fresh, dropped, updates,
                drifts, faults, loop, vethLink, ospfState, tmpfiles>>

\* CalculateMultiplePings(namespace, ifnames) is called
PingCall ==
    /\ pinger.pc = "idle"
    /\ \E ifnames \in SUBSET PingIfs :
           pinger' = [pinger EXCEPT !.ifnames = ifnames,
                                    !.pc = IF ifnames = {} THEN "returned" ELSE "starting"]
    /\ PingFrame

\* one callback of the Promise.all runs to its return
PingStart ==
    /\ pinger.pc = "starting"
    /\ ~PendingError(pinger)
    /\ \E i \in pinger.ifnames \ pinger.done :
       \E outcome \in {"no address", "spawn throws", "spawn failed", "spawned"} :
           pinger' = StartRunner(pinger, i, outcome)
    /\ PingFrame

\* the 'error' event of a child without a listener for it: an uncaught
\* exception, the process ends
PingErrorEvent ==
    /\ pinger.pc \in {"starting", "window"}
    /\ PendingError(pinger)
    /\ pinger' = [pinger EXCEPT !.pc = "crashed"]
    /\ PingFrame

\* Promise.all resolved, the 10 s timer is armed
PingWindow ==
    /\ pinger.pc = "starting"
    /\ pinger.done = pinger.ifnames
    /\ ~PendingError(pinger)
    /\ pinger' = [pinger EXCEPT !.pc = "window"]
    /\ PingFrame

\* the timer fires: the stop loop and the return run without an await
PingStopAll ==
    /\ pinger.pc = "window"
    /\ pinger' = StopAll(pinger)
    /\ PingFrame

\* a ping process ends: by itself, or after the SIGTERM
PingExits ==
    /\ \E i \in PingIfs :
           /\ pinger.proc[i] \in {"running", "signalled"}
           /\ pinger' = [pinger EXCEPT !.proc[i] = "exited"]
    /\ PingFrame

NextPing == PingCall \/ PingStart \/ PingErrorEvent \/ PingWindow \/ PingStopAll \/ PingExits

SpecPing == InitPing /\ [][NextPing]_vars

\* ------------------------------------------------- OSPF parser alone
\* A document is a sequence of blocks [header, routers], a router is
\* [routerId, entries], an entry is what one level-2 line says.
Ent(kind, name, metric, m2, via, tag) ==
    [kind |-> kind, name |-> name, metric |-> metric, m2 |-> m2, via |-> via, tag |-> tag]

EntryLists ==
    {<< >>,
     <<Ent("distance", "", "10", FALSE, "undefined", "undefined"),
       Ent("router", "2.2.2.2", "10", FALSE, "undefined", "undefined"),
       Ent("stubnet", "10.0.0.0/30", "10", FALSE, "undefined", "undefined"),
       Ent("router", "3.3.3.3", "20", FALSE, "undefined", "undefined")>>,
     <<Ent("external", "0.0.0.0/0", "20", TRUE, "10.0.0.1", "5"),
       Ent("nssa-ext", "10.9.0.0/16", "10", FALSE, "undefined", "5"),
       Ent("external", "10.8.0.0/16", "5", FALSE, "undefined", "undefined")>>,
     <<Ent("xnetwork", "10.7.0.0/16", "20", FALSE, "undefined", "undefined"),
       Ent("xrouter", "4.4.4.4", "5", FALSE, "undefined", "undefined"),
       Ent("vlink", "5.5.5.5", "10", FALSE, "undefined", "undefined"),
       Ent("nssa-ext", "10.6.0.0/16", "0", TRUE, "10.0.0.2", "undefined")>>}

OspfHeaders == {<<"area", "0.0.0.0">>, <<"area", "0.0.0.1">>, <<"other", "ASBRs">>}

OspfBodies ==
    {<< >>}
      \cup {<<[routerId |-> "1.1.1.1", entries |-> e]>> : e \in EntryLists}
      \cup {<<[routerId |-> "1.1.1.1", entries |-> e1], [routerId |-> "2.2.2.2", entries |-> e2]>> :
               e1 \in EntryLists, e2 \in EntryLists \ {<< >>}}

OspfBlocks == {[header |-> h, routers |-> b] : h \in OspfHeaders, b \in OspfBodies}

\* one block, or a block followed by a block with a single router
OspfDocs ==
    {<<b>> : b \in OspfBlocks}
      \cup {<<b1, b2>> : b1 \in OspfBlocks,
                         b2 \in {b \in OspfBlocks : Len(b.routers) = 1 /\ b.routers[1].entries # << >>}}

\* the words of the line birdc prints for an entry
EntryParts(e) ==
    IF e.kind = "distance" THEN <<"distance", e.metric>>
    ELSE IF e.kind \in {"external", "nssa-ext"}
    THEN <<e.kind, e.name, IF e.m2 THEN "metric2" ELSE "metric", e.metric>>
           \o (IF e.via # "undefined" THEN <<"via", e.via>> ELSE << >>)
           \o (IF e.tag # "undefined" THEN <<"tag", e.tag>> ELSE << >>)
    ELSE <<e.kind, e.name, "metric", e.metric>>

RECURSIVE Flatten(_)
Flatten(qq) == IF qq = << >> THEN << >> ELSE Head(qq) \o Flatten(Tail(qq))

RouterText(r) ==
    <<Line(1, <<"router", r.routerId>>)>> \o [k \in 1..Len(r.entries) |-> Line(2, EntryParts(r.entries[k]))]
BlockText(b) ==
    <<Line(0, b.header)>> \o Flatten([k \in 1..Len(b.routers) |-> RouterText(b.routers[k])])
DocText(doc) == Flatten([k \in 1..Len(doc) |-> BlockText(doc[k])])

\* the text with a blank line before every line and at the end: "" or tabs only
BlankModes == {"none", "empty", "tabs"}
WithBlanks(lines, mode) ==
    IF mode = "none" THEN lines
    ELSE LET blank == Line(IF mode = "tabs" THEN 2 ELSE 0, << >>)
         IN  Flatten([k \in 1..Len(lines) |-> <<blank, lines[k]>>]) \o <<blank>>

InitOspf ==
    /\ remoteConfig = [exitNode |-> FALSE, vethCIDR |-> "undefined", ospf |-> NodeOspf]
    /\ remotePeers = [i \in {} |-> 0]
    /\ wgkey = {}
    /\ simplekv = [k \in {} |-> 0]
    /\ wg = [i \in {} |-> 0]
    /\ veth0 = FALSE
    /\ iptables = {}
    /\ chains = {}
    /\ units = [u \in {} |-> 0]
    /\ nextUnit = 1
    /\ posted = {}
    /\ bird = NoBird
    /\ router = "running"
    /\ probe = NoSamples
    /\ tick = NoTick
    /\ fresh = FALSE
    /\ dropped = NoRule
    /\ updates = 0
    /\ drifts = 0
    /\ faults = 0
    /\ loop = "ticking"
    /\ vethLink = NoVethLink
    /\ pinger = NoPinger
    /\ ospfState \in {[NoOspfState EXCEPT !.doc = d, !.blanks = b, !.lines = WithBlanks(DocText(d), b)] :
                         d \in OspfDocs, b \in BlankModes}
    /\ tmpfiles = {}

\* parseOSPFState on the text
ParseOspf ==
    /\ ospfState.st = "none"
    /\ LET r == parseOSPFState(ospfState.lines)
       IN  ospfState' = [ospfState EXCEPT !.st = IF r.ok THEN "parsed" ELSE "threw", !.out = r.v]
    /\ UNCHANGED <<remoteConfig, remotePeers, Kernel, probe, tick, fresh, dropped, updates,
                   drifts, faults, loop, vethLink, pinger, tmpfiles>>

NextOspf == ParseOspf

SpecOspf == InitOspf /\ [][NextOspf]_vars

\* ------------------------------------------------------------ start-up
\* tryFlushIptables: `iptables -t T -F {ns}-C`; a failure is logged only
tryFlushIptables(m, k) ==
    IF m.st # "ok" THEN m
    ELSE IF m.fault = <<"iptables -F", k>> THEN [m EXCEPT !.faulted = TRUE]
    ELSE [m EXCEPT !.iptables = {r \in @ : ~(/\ ~r.ns
                                             /\ r.table = AgentChains[k][1]
                                             /\ r.chain = "ns-" \o AgentChains[k][2])}]

RECURSIVE ClearIPTablesFrom(_, _)
ClearIPTablesFrom(m, k) ==
    IF k > Len(AgentChains) THEN m
    ELSE ClearIPTablesFrom(tryFlushIptables(m, k), k + 1)

\* the seven agent chains, then FORWARD inside the namespace, each best effort
ClearIPTables(m) ==
    LET m1 == ClearIPTablesFrom(m, 1)
    IN  IF m1.st # "ok" THEN m1
        ELSE IF m1.fault = <<"iptables -F FORWARD", 0>> THEN [m1 EXCEPT !.faulted = TRUE]
        ELSE [m1 EXCEPT !.iptables = {r \in @ : ~(r.ns /\ r.chain = "FORWARD")}]

RECURSIVE DestroyDumped(_, _)
DestroyDumped(m, ids) ==
    IF ids = {} THEN m
    ELSE LET id == Min(ids)
         IN  DestroyDumped(tryDestroyDevice(m, id), ids \ {id})

cleanUpEverything(m) ==
    LET m1 == Call(m, "EnsureNetNs", 0, m)
        m2 == Call(m1, "wg show all dump", 0, m1)
        m3 == DestroyDumped(m2, DOMAIN DumpAllWireGuardState(m1))
        m4 == Call(m3, "ip -j link", 0,
                   IF m3.veth0
                   THEN Call(m3, "ip link del veth", 0,
                             Issue([m3 EXCEPT !.veth0 = FALSE], "ip link del", 0, NoRule))
                   ELSE m3)
    IN  shutdownRouterContainer(ClearIPTables(m4), TRUE)

\* what an earlier run of the agent may have left on the host
LeftoverDevices == {{}, {3}, {1, 3}}
LeftoverRules == {MasqueradeRule, PeerRule(3, 51820), VethForward, TcpMssRule}
SweepSites ==
    {<<"iptables -F", k>> : k \in {1, 6, 7}}
        \cup {<<s, 0>> : s \in {"iptables -F FORWARD", "wg show all dump", "ip link del veth",
                                "podman inspect", "systemctl stop router", "podman rm -f"}}
        \cup {<<"ip link del", 3>>}

InitStartup ==
    /\ remoteConfig = [exitNode |-> FALSE, vethCIDR |-> "undefined", ospf |-> NodeOspf]
    /\ remotePeers = [i \in {} |-> 0]
    /\ wgkey = {}
    /\ simplekv = [k \in {} |-> 0]
    /\ \E ids \in LeftoverDevices : wg = [i \in ids |-> [NewDevice EXCEPT !.inns = TRUE]]
    /\ veth0 \in BOOLEAN
    /\ iptables \in SUBSET LeftoverRules
    /\ chains = {AgentChains[k] : k \in 1..Len(AgentChains)}
    /\ units = [u \in {} |-> 0]
    /\ nextUnit = 1
    /\ posted = {}
    /\ bird = NoBird
    /\ router \in {"absent", "running"}
    /\ probe = NoSamples
    /\ tick = NoTick
    /\ fresh = FALSE
    /\ dropped = NoRule
    /\ updates = 0
    /\ drifts = 0
    /\ faults = 0
    /\ loop = "starting"
    /\ vethLink = NoVethLink
    /\ pinger = NoPinger
    /\ ospfState = NoOspfState
    /\ tmpfiles = {}

\* await cleanUpEverything(nodeSettings): a rejection ends ServiceMain
Sweep ==
    /\ loop = "starting"
    /\ \E f \in SweepSites \cup {NoFault} :
           LET m == cleanUpEverything(Machine(f))
           IN  /\ wg' = m.wg
               /\ veth0' = m.veth0
               /\ iptables' = m.iptables
               /\ router' = m.router
               /\ faults' = IF m.faulted THEN faults + 1 ELSE faults
               /\ loop' = IF m.st = "ok" THEN "swept" ELSE "exited"
    /\ UNCHANGED <<remoteConfig, remotePeers, wgkey, simplekv, chains, units, nextUnit, posted,
                   bird, probe, tick, fresh, dropped, updates, drifts, vethLink, pinger,
                   ospfState, tmpfiles>>

\* await sleep(1000), then the loop is entered
StartLoop ==
    /\ loop = "swept"
    /\ loop' = "ticking"
    /\ UNCHANGED <<remoteConfig, remotePeers, Kernel, probe, tick, fresh, dropped,
                   updates, drifts, faults, vethLink, pinger, ospfState, tmpfiles>>

NextStartup ==
    \/ Sweep
    \/ StartLoop
    \/ ServiceTick
    \/ ServiceSleep

SpecStartup == InitStartup /\ [][NextStartup]_vars

\* ------------------------------------------------- key-pool sync alone
MaxPool == 6
KeyPair(n) == [private |-> 100 + n, public |-> n]
\* stores an earlier run can have left; public 0 is the key of a failed `wg pubkey`
KeyStores == {{}, {KeyPair(1)}, {KeyPair(1), KeyPair(2)}, {KeyPair(n) : n \in 1..3},
              {[private |-> 101, public |-> 0]},
              {[private |-> 101, public |-> 0], KeyPair(2), KeyPair(3)}}
KeySites == {<<s, 0>> : s \in {"wg genkey", "wg pubkey", "POST sync_wireguard_keys"}}

InitKeys ==
    /\ remoteConfig = [exitNode |-> FALSE, vethCIDR |-> "undefined", ospf |-> NodeOspf]
    /\ remotePeers = [i \in {} |-> 0]
    /\ wgkey \in KeyStores
    /\ simplekv = [k \in {} |-> 0]
    /\ wg = [i \in {} |-> 0]
    /\ veth0 = FALSE
    /\ iptables = {}
    /\ chains = {}
    /\ units = [u \in {} |-> 0]
    /\ nextUnit = 1
    /\ posted \in {{}, {k.public : k \in wgkey}}
    /\ bird = NoBird
    /\ router = "absent"
    /\ probe = NoSamples
    /\ tick = NoTick
    /\ fresh = FALSE
    /\ dropped = NoRule
    /\ updates = 0
    /\ drifts = 0
    /\ faults = 0
    /\ loop = "sleeping"
    /\ vethLink = NoVethLink
    /\ pinger = NoPinger
    /\ ospfState = NoOspfState
    /\ tmpfiles = {}

\* doSyncWireGuardKeys(atLeast) on the store as it stands
SyncWireGuardKeys ==
    /\ \E atLeast \in 0..MaxPool :
       \E f \in (IF faults < MaxFaults THEN KeySites ELSE {}) \cup {NoFault} :
           Commit(doSyncWireGuardKeys(Machine(f), atLeast))
    /\ UNCHANGED <<remoteConfig, remotePeers, probe, dropped, updates, drifts, loop, vethLink,
                   pinger, ospfState>>

NextKeys == SyncWireGuardKeys

SpecKeys == InitKeys /\ [][NextKeys]_vars

\* ------------------------------------------------- keepalive sync alone
\* desired keepalives (z.number(): 0 is allowed); an observed 0 is `off`
KeepaliveValues == {0, 25, 30}
\* an interface of peer 1 as an earlier tick or anything else left it
KeepaliveDevices ==
    {[NewDevice EXCEPT !.inns = TRUE, !.addr = TRUE, !.up = TRUE, !.private = 101]}
        \cup {[NewDevice EXCEPT !.inns = TRUE, !.addr = TRUE, !.up = TRUE, !.private = 101,
                                !.peers = [k \in {201} |-> [endpoint |-> RemoteEndpoint,
                                                            keepalive |-> ka,
                                                            allowedIPs |-> "0.0.0.0/0"]]] :
                 ka \in KeepaliveValues}

InitKeepalive ==
    /\ remoteConfig = [exitNode |-> FALSE, vethCIDR |-> "undefined", ospf |-> NodeOspf]
    /\ remotePeers \in {[i \in {1} |-> [PeerRecord(1, 1, 201, 0, NoUnderlay, NoOspf) EXCEPT !.keepalive = k]] : k \in KeepaliveValues}
    /\ wgkey = {[private |-> 101, public |-> 1]}
    /\ simplekv = [k \in {} |-> 0]
    /\ wg \in {[i \in {1} |-> d] : d \in KeepaliveDevices}
    /\ veth0 = FALSE
    /\ iptables = {}
    /\ chains = {}
    /\ units = [u \in {} |-> 0]
    /\ nextUnit = 1
    /\ posted = {}
    /\ bird = NoBird
    /\ router = "absent"
    /\ probe = NoSamples
    /\ tick = NoTick
    /\ fresh = FALSE
    /\ dropped = NoRule
    /\ updates = 0
    /\ drifts = 0
    /\ faults = 0
    /\ loop = "sleeping"
    /\ vethLink = NoVethLink
    /\ pinger = NoPinger
    /\ ospfState = NoOspfState
    /\ tmpfiles = {}

\* doSyncPeers on the interfaces as they stand
SyncPeersStage ==
    /\ \E f \in (IF faults < MaxFaults THEN {<<"wg set keepalive", 1>>} ELSE {}) \cup {NoFault} :
           Commit(doSyncPeers(Machine(f), remotePeers))
    /\ UNCHANGED <<remoteConfig, remotePeers, probe, dropped, updates, drifts, loop, vethLink,
                   pinger, ospfState>>

\* the controller changes the keepalive of the peer
SetKeepalive ==
    /\ ControllerChange
    /\ \E k \in KeepaliveValues \ {remotePeers[1].keepalive} :
           remotePeers' = [remotePeers EXCEPT ![1].keepalive = k]
    /\ UNCHANGED remoteConfig

NextKeepalive ==
    \/ SyncPeersStage
    \/ SetKeepalive

SpecKeepalive == InitKeepalive /\ [][NextKeepalive]_vars

\* ------------------------------------- routing stage, container lifecycle
\* the calls EnsureRouterContainer makes, each of which can fail
RouterSites ==
    {<<s, 0>> : s \in {"EnsureRouterContainer", "podman inspect", "systemctl list-units",
                       "systemctl stop router", "podman rm -f", "podman create",
                       "podman inspect created", "systemd-run podman start",
                       "podman inspect started"}}

\* doSyncBird, the only caller of EnsureRouterContainer in a tick
RouterStage ==
    /\ \E samples \in [PeerIds -> SampleSeqs] :
       \E f \in (IF faults < MaxFaults THEN RouterSites ELSE {}) \cup {NoFault} :
           /\ Commit(doSyncBird(Machine(f), remoteConfig, remotePeers, samples))
           /\ probe' = samples
    /\ UNCHANGED <<remoteConfig, remotePeers, dropped, updates, drifts, loop, vethLink,
                   pinger, ospfState>>

RouterDrift ==
    /\ drifts < MaxDrift
    /\ drifts' = drifts + 1
    /\ fresh' = FALSE
    /\ UNCHANGED <<remoteConfig, remotePeers, wgkey, simplekv, wg, veth0, iptables, chains,
                   units, nextUnit, posted, bird, probe, tick, dropped, updates, faults,
                   loop, vethLink, pinger, ospfState, tmpfiles>>

\* the routing daemon exits, or somebody removes the container
ContainerExits == RouterDrift /\ router = "running" /\ router' = "exited"

ContainerRemoved == RouterDrift /\ router # "absent" /\ router' = "absent"

NextRouter == RouterStage \/ ContainerExits \/ ContainerRemoved

SpecRouter == InitBird /\ [][NextRouter]_vars

\* ------------------------------- a namespace shared with other interfaces
\* a WireGuard interface of the namespace whose name is not {ns}-N, such as
\* wg0: `wg show all dump` lists it as it lists the agent's own
ForeignIds == {90}

\* `ip -n ns link add wg0 type wireguard` by somebody else
AddForeignInterface ==
    /\ ExternalChange
    /\ \E id \in ForeignIds \ DOMAIN wg :
           wg' = Put(wg, id, [NewDevice EXCEPT !.inns = TRUE])
    /\ UNCHANGED <<dropped, wgkey, simplekv, veth0, iptables, chains, units, nextUnit,
                   posted, bird, router>>

NextForeign == Tick \/ AddPeer \/ RemovePeer \/ AddForeignInterface

SpecForeign == Init /\ [][NextForeign]_vars

\* ------------------------------------------- relay workers and the store
\* the two writes of doSyncCreateLocalUnderlay: the unit, then its record
WorkerSites == {<<s, i>> : s \in {"systemd-run", "upsert simplekv"}, i \in PeerIds}

WorkerTick ==
    /\ \E f \in (IF faults < MaxFaults THEN WorkerSites ELSE {}) \cup {NoFault} :
           Commit(doSyncOnce(Machine(f), remoteConfig, remotePeers, NoSamples))
    /\ probe' = NoSamples
    /\ UNCHANGED <<remoteConfig, remotePeers, dropped, updates, drifts, loop, vethLink,
                   pinger, ospfState>>

NextWorker == WorkerTick \/ AddPeer \/ ChangePeer \/ RemovePeer

SpecWorker == Init /\ [][NextWorker]_vars

\* ------------------------------------------------------------ claims
\* the state is the one a tick that completed has just left
Completed == fresh /\ tick.status = "completed"
\* this step is a tick that ran right after another tick
TickAfterTick == fresh /\ fresh' /\ updates' = updates /\ drifts' = drifts

\* C1 (as claimed): a tick that runs right after a tick that completed, with
\* the desired state and the kernel untouched in between and no external
\* fault in either, completes, issues no state-changing operation and
\* leaves kernel and store state as they were.
C1_TickIdempotent ==
    [][(Completed /\ ~tick.faulted /\ TickAfterTick /\ ~tick'.faulted)
          => (tick'.status = "completed" /\ tick'.issued = {} /\ Kernel' = Kernel)]_vars

\* the stored private key paired with a public key (0: none)
PrivateKeyOf(public) ==
    IF \E k \in wgkey : k.public = public
    THEN (CHOOSE k \in wgkey : k.public = public).private ELSE 0

\* C2 (as claimed): after every tick that completes, every peer of the
\* fetched list has its interface in the namespace, and the interface
\* carries the stored private key paired with the peer's publicKey.
C2_InterfaceCarriesPairedKey ==
    Completed =>
        \A id \in DOMAIN remotePeers :
            /\ id \in DOMAIN wg
            /\ wg[id].inns
            /\ wg[id].private # 0
            /\ wg[id].private = PrivateKeyOf(remotePeers[id].publicKey)

\* C3: after every tick that completes, every WireGuard interface {ns}-N in
\* the namespace belongs to a peer of the current peer list.
C3_NoStaleInterface ==
    Completed => \A i \in DOMAIN wg : wg[i].inns => i \in DOMAIN remotePeers

\* C3 witness: a tick completed whose stale pass destroyed the interface of
\* an N outside the peer list.
C3_StaleInterfaceDestroyed ==
    /\ Completed
    /\ \E o \in tick.issued : o.op = "ip link del" /\ o.ifn \in IfIds \ DOMAIN remotePeers

\* the agent-owned rules the desired state calls for
DesiredRules ==
    {PeerRule(id, remotePeers[id].listenPort) :
        id \in {i \in DOMAIN remotePeers : remotePeers[i].listenPort # 0}}
      \cup (IF isEmptyString(remoteConfig.vethCIDR) THEN {} ELSE VethRules)
      \cup (IF remoteConfig.exitNode THEN {MasqueradeRule} ELSE {})

\* C4 (as claimed): an agent-owned rule that the desired state calls for and
\* that was deleted externally while the desired state stayed unchanged is
\* in the kernel again after the next tick that completes.
C4_DroppedRuleRestored ==
    (Completed /\ dropped \in DesiredRules) => dropped \in iptables

\* every peer interface has its key, its single peer entry and its
\* listen-port rule, and the veth has all its tagged rules
Converged ==
    /\ \A id \in DOMAIN remotePeers :
           /\ id \in DOMAIN wg
           /\ wg[id].inns
           /\ wg[id].private # 0
           /\ wg[id].private = PrivateKeyOf(remotePeers[id].publicKey)
           /\ DOMAIN wg[id].peers = {remotePeers[id].peerPublicKey}
           /\ remotePeers[id].listenPort # 0 =>
                  PeerRule(id, remotePeers[id].listenPort) \in iptables
    /\ ~isEmptyString(remoteConfig.vethCIDR) => (veth0 /\ VethRules \subseteq iptables)

\* C5 (as claimed): when a tick aborted on an external fault and the next
\* tick runs right after it without a fault, that tick completes and leaves
\* every peer interface and the veth fully set up.
C5_RecoversFromPartialTick ==
    [][(fresh /\ tick.status = "aborted" /\ tick.faulted /\ TickAfterTick /\ ~tick'.faulted)
          => (tick'.status = "completed" /\ Converged')]_vars

\* C6 (as claimed): after every tick that completes, the peer table of every
\* peer interface holds exactly one entry, keyed by the peer's peerPublicKey.
C6_SinglePeerEntry ==
    Completed =>
        \A id \in DOMAIN remotePeers \cap DOMAIN wg :
            DOMAIN wg[id].peers = {remotePeers[id].peerPublicKey}

\* C7 (as claimed): after every tick that completes, filter/{ns}-INPUT holds
\* the tagged ACCEPT rule for the listen port of every peer with listenPort # 0.
C7_ListenPortRulePresent ==
    Completed =>
        \A id \in DOMAIN remotePeers :
            remotePeers[id].listenPort # 0 =>
                PeerRule(id, remotePeers[id].listenPort) \in iptables

\* C8 (as claimed): after a tick that completes, an underlay record or a
\* worker unit of an interface outside the peer set exists only if that very
\* tick destroyed the interface as stale (the next tick collects them).
C8_OrphanRecordsCollected ==
    Completed =>
        \A id \in (DOMAIN simplekv \cup {units[u].ifn : u \in DOMAIN units}) \ DOMAIN remotePeers :
            \E o \in tick.issued : o.op = "ip link del" /\ o.ifn = id

\* the measured ping of an interface, if a measurement is available
Measured(id) ==
    IF remotePeers[id].ospf.defined /\ remotePeers[id].ospf.ping
    THEN TrimmedMean(probe[id]) ELSE NaN

\* clamp(1, floor(base + offset), 65535) with base the measured ping if
\* available, else peer.extra.ospf.cost, else 1000 (inputs in tenths)
ClaimedCost(id) ==
    LET o == remotePeers[id].ospf
        base == IF ~Measured(id).nan THEN Measured(id).v
                ELSE IF o.defined THEN o.cost ELSE DefaultCost * 10
        offset == IF o.defined THEN o.offset ELSE 0
        floored == (base + offset) \div 10
    IN  IF floored < MinCost THEN MinCost ELSE IF floored > MaxCost THEN MaxCost ELSE floored

\* C9 (as claimed): the cost emitted for every peer is the claimed cost, and
\* costMap holds only values within [1, 65535].
C9_EmittedCost ==
    \A id \in DOMAIN bird.costMap :
        /\ ~bird.costMap[id].nan
        /\ bird.costMap[id].v >= MinCost * 10
        /\ bird.costMap[id].v <= MaxCost * 10
        /\ bird.areas[0][id] = ClaimedCost(id)

\* iptables -A and iptables -I operations of the last tick
Appended == {o \in tick.issued : o.op \in {"iptables -A", "iptables -I"}}

C12_FailureAbortsTick ==
    (tick.faulted /\ tick.error = "external fault") => tick.status = "aborted"

\* C13: a run of doSyncExitNode changes nothing but the MASQUERADE rule of
\* nat/{ns}-POSTROUTING; when it returns the rule is present iff exitNode is
\* true; it appends the rule only when it was absent (so it is never there
\* twice) and deletes it only on exitNode = false.
C13_ExitNodeReconciled ==
    [][fresh' =>
          /\ iptables' \ {MasqueradeRule} = iptables \ {MasqueradeRule}
          /\ chains' = chains
          /\ tick'.status = "completed" =>
                 (MasqueradeRule \in iptables' <=> remoteConfig.exitNode)
          /\ \A o \in tick'.issued :
                 /\ o.rule = MasqueradeRule
                 /\ o.op = "iptables -A" => MasqueradeRule \notin iptables
                 /\ o.op = "iptables -D" => (MasqueradeRule \in iptables /\ ~remoteConfig.exitNode)]_vars

\* C13 witness: exitNode went back to false and the stage deleted the
\* MASQUERADE rule while the kernel holds other rules.
C13_MasqueradeDeleted ==
    /\ fresh /\ tick.status = "completed" /\ updates > 0 /\ ~remoteConfig.exitNode
    /\ \E o \in tick.issued : o.op = "iptables -D" /\ o.rule = MasqueradeRule
    /\ iptables # {}

\* C14 (as claimed): a completed tick that destroyed the stale interface
\* {ns}-N leaves no rule tagged #peer_{ns}-N# in filter/{ns}-INPUT.
C14_StalePeerRulesPurged ==
    Completed =>
        \A o \in tick.issued :
            (o.op = "ip link del" /\ o.ifn \notin DOMAIN remotePeers) =>
                \A r \in iptables :
                    ~(r.table = "filter" /\ r.chain = "ns-INPUT" /\ r.tag = TagPeer /\ r.ifn = o.ifn)

\* C18 (as claimed): while the store holds the record that
\* setLocalUnderlayState wrote for an interface, getLocalUnderlayState of that
\* interface returns it.
C18_StoredRecordReadable ==
    \A ifname \in DOMAIN simplekv :
        LET got == getLocalUnderlayState(Machine(NoFault), ifname)
        IN  got.m.st = "ok" /\ got.v = simplekv[ifname].value

\* the ops of the worker manager and of the store that a run issued
OpsOf(m) == {o.op : o \in m.issued}

\* C15 (as claimed): with a stored record of mode client and a peer that now
\* declares gost_relay_server, doSyncPeerUnderlay stops the old unit, deletes
\* the record, starts a server unit whose target port is the live listen
\* port of the interface and writes a record of mode server with the remote
\* listen_port.
C15_ModeChangeRecreates ==
    \A id \in DOMAIN remotePeers \cap DOMAIN simplekv \cap InNs(Machine(NoFault)) :
        (simplekv[id].value.mode = "client"
           /\ remotePeers[id].underlay.provider = "gost_relay_server") =>
            LET m == doSyncPeerUnderlay(Machine(NoFault), remotePeers[id])
            IN  /\ m.st = "ok"
                /\ {"systemctl stop", "delete record", "systemd-run", "set record"} \subseteq OpsOf(m)
                /\ simplekv[id].value.unit_name \notin DOMAIN m.units
                /\ \E u \in DOMAIN m.units :
                       /\ m.units[u].mode = "server"
                       /\ m.units[u].targetPort = wg[id].listen
                /\ id \in DOMAIN m.simplekv
                /\ m.simplekv[id].value.mode = "server"
                /\ m.simplekv[id].value.listen_port = remotePeers[id].underlay.listen_port

\* the condition of a recreate in the words of the claim
RecreateClaimed(rec, remote) ==
    \/ (rec.mode = "client") # (remote.provider = "gost_relay_client")
    \/ rec.listen_port # remote.listen_port
    \/ rec.mode = "client" /\ rec.server_port # remote.server_port
    \/ rec.mode = "client" /\ remote.server_addr # "" /\ rec.server_ip # remote.server_addr

\* C16 (as claimed): with a stored record and a declared underlay,
\* doSyncPeerUnderlay stops and recreates the worker iff the mode or a relevant
\* port or a non-empty server address differs; otherwise it stops and starts
\* nothing and leaves the record as it is.
C16_RecreateIffChanged ==
    \A id \in DOMAIN remotePeers \cap DOMAIN simplekv \cap InNs(Machine(NoFault)) :
        remotePeers[id].underlay.provider # "none" =>
            LET m == doSyncPeerUnderlay(Machine(NoFault), remotePeers[id])
            IN  IF RecreateClaimed(simplekv[id].value, remotePeers[id].underlay)
                THEN {"systemctl stop", "systemd-run"} \subseteq OpsOf(m)
                ELSE OpsOf(m) = {} /\ m.simplekv = simplekv /\ m.units = units

\* C17 (as claimed): a call of doSyncPeerUnderlay that returns without error
\* leaves a record iff the peer declares an underlay, with the declared mode
\* and ports; without record and declaration it changes nothing; with a
\* record and no declaration it stops the unit and deletes the record.
C17_UnderlayConverges ==
    \A id \in DOMAIN remotePeers \cap InNs(Machine(NoFault)) :
        LET m == doSyncPeerUnderlay(Machine(NoFault), remotePeers[id])
            remote == remotePeers[id].underlay
        IN  /\ m.st = "ok" =>
                /\ id \in DOMAIN m.simplekv <=> remote.provider # "none"
                /\ id \in DOMAIN m.simplekv =>
                       /\ (m.simplekv[id].value.mode = "client") = (remote.provider = "gost_relay_client")
                       /\ m.simplekv[id].value.listen_port = remote.listen_port
                       /\ m.simplekv[id].value.server_port = remote.server_port
            /\ (id \notin DOMAIN simplekv /\ remote.provider = "none") =>
                   (m.simplekv = simplekv /\ m.units = units)
            /\ (id \in DOMAIN simplekv /\ remote.provider = "none") =>
                   /\ id \notin DOMAIN m.simplekv
                   /\ simplekv[id].value.unit_name \notin DOMAIN m.units

\* the network address of a /30 in the words of the claim: the multiple of
\* four at or below the address the CIDR names
NetworkOf(cidr) ==
    CHOOSE n \in (bigInt(<<cidr[1], cidr[2], cidr[3], cidr[4]>>) - 3)..bigInt(<<cidr[1], cidr[2], cidr[3], cidr[4]>>) :
        n % 4 = 0
DottedQuad(n) == <<n \div 16777216, (n \div 65536) % 256, (n \div 256) % 256, n % 256>>

\* C19: CreateVethDevice gives the host side N+1/30 and the namespace side
\* N+2/30, N the network address of the /30 the CIDR names; with a prefix
\* length other than 30 it fails and assigns no address.
C19_VethAddressing ==
    /\ vethLink.host0 # NoAddress =>
           /\ vethLink.cidr[5] = 30
           /\ vethLink.host0 = DottedQuad(NetworkOf(vethLink.cidr) + 1) \o <<30>>
    /\ vethLink.peer1 # NoAddress =>
           /\ vethLink.cidr[5] = 30
           /\ vethLink.peerInNs
           /\ vethLink.peer1 = DottedQuad(NetworkOf(vethLink.cidr) + 2) \o <<30>>
    /\ vethLink.st = "up" => (vethLink.host0 # NoAddress /\ vethLink.peer1 # NoAddress)
    /\ (vethLink.st # "none" /\ vethLink.cidr[5] # 30) => vethLink.st = "failed"

\* C19 witness: a veth pair came up for a CIDR that names the last address
\* of its /30.
C19_VethUpFromInnerAddress ==
    /\ vethLink.st = "up"
    /\ vethLink.cidr[4] % 4 = 3
    /\ vethLink.host0[4] = vethLink.cidr[4] - 2

\* C20 (as claimed): when a call of CalculateMultiplePings has ended, by a
\* return or by an exception, no prober it started is left running
\* without having been killed.
C20_ProbersKilledOnExit ==
    pinger.pc \in {"returned", "crashed"} =>
        \A i \in PingIfs : pinger.proc[i] # "running"

\* the samples left after dropping the k smallest and the k largest, in
\* the words of the claim
RECURSIVE RemoveOne(_, _)
RemoveOne(q, x) == IF q = << >> THEN << >>
                   ELSE IF Head(q) = x THEN Tail(q)
                   ELSE <<Head(q)>> \o RemoveOne(Tail(q), x)
Smallest(q) == CHOOSE x \in {q[j] : j \in 1..Len(q)} : \A j \in 1..Len(q) : x <= q[j]
Largest(q) == CHOOSE x \in {q[j] : j \in 1..Len(q)} : \A j \in 1..Len(q) : x >= q[j]
RECURSIVE ClaimedKept(_, _)
ClaimedKept(q, k) ==
    IF k = 0 THEN q
    ELSE ClaimedKept(RemoveOne(RemoveOne(q, Smallest(q)), Largest(RemoveOne(q, Smallest(q)))), k - 1)

\* C21: TrimmedMean of a non-empty sample list is the mean of the samples
\* without the floor(n/10) smallest and the floor(n/10) largest (the plain
\* mean for n < 10; 1 ms for nine samples of 1 ms and one of 100 ms); for
\* an empty list it is absent.  Means are compared in tenths of a ms.
C21_TrimmedMean ==
    \A i \in DOMAIN probe :
        LET q == probe[i]
            r == TrimmedMean(q)
            kept == ClaimedKept(q, Len(q) \div 10)
        IN  IF q = << >> THEN r.nan
            ELSE /\ ~r.nan
                 /\ r.v = SumSeq(kept) \div Len(kept)
                 /\ Len(q) < 10 => r.v = SumSeq(q) \div Len(q)
                 /\ q = <<10, 1000, 10, 10, 10, 10, 10, 10, 10, 10>> => r.v = 10

\* C21 witness: the routing stage ran on ten unsorted samples with one
\* outlier for a peer whose cost is measured.
C21_OutlierTrimmed ==
    /\ bird # NoBird
    /\ \E i \in DOMAIN remotePeers :
           /\ remotePeers[i].ospf.defined /\ remotePeers[i].ospf.ping
           /\ probe[i] = <<10, 1000, 10, 10, 10, 10, 10, 10, 10, 10>>

\* what the claim expects of a router: every entry in the list of its kind,
\* in input order
RECURSIVE Pick(_, _)
Pick(entries, kinds) ==
    IF entries = << >> THEN << >>
    ELSE (IF Head(entries).kind \in kinds THEN <<Head(entries)>> ELSE << >>) \o Pick(Tail(entries), kinds)
AsMetric(es) == [k \in 1..Len(es) |-> [name |-> es[k].name, metric |-> parseInt(es[k].metric)]]
AsExternal(es) ==
    [k \in 1..Len(es) |->
        [network |-> es[k].name, metric |-> parseInt(es[k].metric),
         metricType |-> IF es[k].m2 THEN 2 ELSE 1, via |-> es[k].via, tag |-> es[k].tag]]
ExpectedRouter(r) ==
    [routerId |-> r.routerId,
     distance |-> IF Pick(r.entries, {"distance"}) = << >> THEN 0
                  ELSE parseInt(Pick(r.entries, {"distance"})[Len(Pick(r.entries, {"distance"}))].metric),
     vlinks |-> AsMetric(Pick(r.entries, {"vlink"})),
     routers |-> AsMetric(Pick(r.entries, {"router"})),
     stubnets |-> AsMetric(Pick(r.entries, {"stubnet"})),
     xnetworks |-> AsMetric(Pick(r.entries, {"xnetwork"})),
     xrouters |-> AsMetric(Pick(r.entries, {"xrouter"})),
     externals |-> AsExternal(Pick(r.entries, {"external"})),
     nssaExternals |-> AsExternal(Pick(r.entries, {"nssa-ext"}))]
ExpectedRouters(b) == [k \in 1..Len(b.routers) |-> ExpectedRouter(b.routers[k])]
\* the blocks of a document with a given header, in input order
BlocksOf(doc, header) ==
    LET RECURSIVE Sel(_)
        Sel(d) == IF d = << >> THEN << >>
                  ELSE (IF Head(d).header = header THEN <<Head(d)>> ELSE << >>) \o Sel(Tail(d))
    IN  Sel(doc)
RoutersOf(doc, header) ==
    Flatten([k \in 1..Len(BlocksOf(doc, header)) |-> ExpectedRouters(BlocksOf(doc, header)[k])])
AreaIds(doc) == {doc[k].header[2] : k \in {j \in 1..Len(doc) : doc[j].header[1] = "area"}}

C23_NoTempFileLeft == tmpfiles = {}

\* C24: ServiceMain enters the loop only after the sweep returned, and at
\* that point (the sweep has completed, the first tick has not started) the
\* namespace holds no WireGuard device, veth0 is gone, the seven agent chains
\* and the namespace's FORWARD chain hold no rule, and the router container
\* is absent.
C24_SweptClean ==
    loop = "swept" =>
        /\ InNs(Machine(NoFault)) = {}
        /\ ~veth0
        /\ \A r \in iptables :
              /\ ~(\E k \in 1..Len(AgentChains) :
                      ~r.ns /\ r.table = AgentChains[k][1] /\ r.chain = "ns-" \o AgentChains[k][2])
              /\ ~(r.ns /\ r.chain = "FORWARD")
        /\ router = "absent"

\* the ordering half, which the code keeps: no tick while the sweep is pending
C24_SweepBeforeFirstTick == [][loop' = "ticking" => loop \in {"swept", "sleeping", "ticking"}]_vars

\* fetched peer lists in which a peer names a public key outside the pool
\* (the pool's public keys are 0..KeyPoolSize)
UnknownKeyPeerLists ==
    LET P(id, key, u) == PeerRecord(id, key, 201, 51820, u, NoOspf)
    IN  {[i \in {1} |-> P(1, 99, u)] : u \in Underlays}
            \cup {[i \in {1, 3} |-> IF i = 1 THEN P(1, 99, NoUnderlay) ELSE P(3, 1, NoUnderlay)],
                  [i \in {1, 3} |-> IF i = 1 THEN P(1, 1, NoUnderlay) ELSE P(3, 99, NoUnderlay)]}
\* the first peer of the list whose key the store does not hold
FirstKeyless(m, ps) == Min({i \in DOMAIN ps : \A k \in m.wgkey : k.public # ps[i].publicKey})
AbortsAtKeyless(m, ps) ==
    LET out == doSyncPeers(m, ps)
        bad == FirstKeyless(m, ps)
    IN  /\ out.st = "aborted"
        /\ out.error = "No local WireGuard key for public key"
        /\ \A o \in out.issued : o.ifn < bad /\ o.ifn \in DOMAIN ps
        /\ out.units = m.units

\* C25: whenever a fetched peer names a public key whose private key the
\* store does not hold, the peers stage aborts with the key assertion,
\* nothing is created for that peer or for a later one, and no stale
\* interface is removed.
C25_KeylessPeerAborts ==
    \A ps \in UnknownKeyPeerLists : AbortsAtKeyless(Machine(NoFault), ps)

\* the same for lists whose keyless peer has no interface in the namespace
\* and whose earlier peers have no device at all: this much the code keeps
C25_KeylessNewPeerAborts ==
    \A ps \in UnknownKeyPeerLists :
        LET m == Machine(NoFault)
        IN  (/\ FirstKeyless(m, ps) \notin InNs(m)
             /\ \A i \in DOMAIN ps : i < FirstKeyless(m, ps) => i \notin DOMAIN m.wg)
                => AbortsAtKeyless(m, ps)

\* C26: from every store and for every N, a doSyncWireGuardKeys(N) that
\* returns leaves at least N pairs in the store, keeps every pair that was
\* stored, has posted exactly the public keys of all pairs now stored, and
\* has generated no more than N - |keys| pairs (none when |keys| >= N).
C26_KeyPoolSync ==
    \A atLeast \in 0..MaxPool : \A f \in KeySites \cup {NoFault} :
        LET out == doSyncWireGuardKeys(Machine(f), atLeast)
            needed == IF atLeast > Cardinality(wgkey) THEN atLeast - Cardinality(wgkey) ELSE 0
        IN  out.st = "ok" =>
                /\ Cardinality(out.wgkey) >= atLeast
                /\ wgkey \subseteq out.wgkey
                /\ out.posted = {k.public : k \in out.wgkey}
                /\ Cardinality(out.wgkey \ wgkey) <= needed

\* a sync that returned after it generated pairs on top of stored ones
C26_PoolFilledAndPosted ==
    /\ Completed
    /\ Cardinality(wgkey) = MaxPool
    /\ KeyPair(1) \in wgkey
    /\ posted = {k.public : k \in wgkey}
    /\ \E k \in wgkey : k.public = 0

\* C27: in the config the routing stage renders, every peer of the fetched
\* list is an interface of area 0 with its cost, whatever the node's own
\* area, the backbone included.
C27_PeersInAreaZero ==
    bird # NoBird =>
        /\ 0 \in DOMAIN bird.areas
        /\ \A i \in DOMAIN remotePeers :
              /\ i \in DOMAIN bird.areas[0]
              /\ bird.areas[0][i] = useCost(bird.costMap[i])

\* the same unless the veth interface is entered into area 0 itself
C27_PeersInAreaZeroUnlessVethThere ==
    (bird # NoBird /\ ~(remoteConfig.vethCIDR # "undefined" /\ remoteConfig.ospf.area = 0)) =>
        /\ 0 \in DOMAIN bird.areas
        /\ \A i \in DOMAIN remotePeers :
              /\ i \in DOMAIN bird.areas[0]
              /\ bird.areas[0][i] = useCost(bird.costMap[i])

VethChains == {<<"nat", "ns-POSTROUTING">>, <<"filter", "ns-FORWARD">>, <<"filter", "ns-INPUT">>}
VethTagged(rules) == {r \in rules : ~r.ns /\ r.tag = TagVeth /\ <<r.table, r.chain>> \in VethChains}

\* C28: when veth0 is there and no veth is desired, a doSyncVeth that
\* returns has destroyed veth0, has left no rule tagged #local_veth# in
\* nat/{ns}-POSTROUTING, filter/{ns}-FORWARD and filter/{ns}-INPUT, and has
\* deleted no rule without the tag.
C28_VethRemovalPurgesRules ==
    (veth0 /\ isEmptyString(remoteConfig.vethCIDR)) =>
        LET out == doSyncVeth(Machine(NoFault), remoteConfig)
        IN  out.st = "ok" =>
                /\ ~out.veth0
                /\ VethTagged(out.iptables) = {}
                /\ \A r \in iptables \ out.iptables : r.tag = TagVeth

\* what the removal keeps of it: the device is destroyed before anything
\* else, and no rule without the tag is deleted
C28_VethRemovalDeletesNoOther ==
    (veth0 /\ isEmptyString(remoteConfig.vethCIDR)) =>
        LET out == doSyncVeth(Machine(NoFault), remoteConfig)
        IN  /\ out.st = "ok"
            /\ ~out.veth0
            /\ \A r \in iptables \ out.iptables : r.tag = TagVeth

\* C29: whenever veth0 exists after a completed tick with a veth desired,
\* the rules the creation installs (ACCEPT within the CIDR and SNAT in nat,
\* ACCEPT in FORWARD, ACCEPT of OSPF in INPUT, all tagged #local_veth#) are
\* all in the kernel.
C29_VethHasItsRules ==
    (Completed /\ veth0 /\ ~isEmptyString(remoteConfig.vethCIDR)) => VethRules \subseteq iptables

\* the creation itself is as described, with four rules: from a state
\* without veth0 and with a veth desired, a doSyncVeth that returns has
\* created the pair and appended every rule of the four that was missing
C29_VethCreationInstallsFour ==
    (~veth0 /\ ~isEmptyString(remoteConfig.vethCIDR)) =>
        LET out == doSyncVeth(Machine(NoFault), remoteConfig)
        IN  /\ out.st = "ok"
            /\ out.veth0
            /\ out.iptables = iptables \cup VethRules
            /\ {o.rule : o \in {x \in out.issued : x.op = "iptables -A"}} = VethRules \ iptables
            /\ Cardinality(VethRules) = 4

\* peers with a relay-client underlay whose interface is up without a worker
ClientPeersToCreate ==
    {i \in DOMAIN remotePeers : /\ remotePeers[i].underlay.provider = "gost_relay_client"
                                /\ i \in InNs(Machine(NoFault))
                                /\ i \notin DOMAIN simplekv}

\* C30: doSyncCreateLocalUnderlay for a relay-client peer, no external call
\* failing, completes with the client unit started, the record persisted and
\* the endpoint of the interface's peer entry for p.peerPublicKey set to
\* 127.0.0.1:{listen_port}.
C30_ClientUnderlayCreated ==
    \A i \in ClientPeersToCreate :
        LET p == remotePeers[i]
            out == doSyncCreateLocalUnderlay(Machine(NoFault), p, i)
        IN  /\ out.st = "ok"
            /\ \E u \in DOMAIN out.units : out.units[u].ifn = i /\ out.units[u].mode = "client"
            /\ i \in DOMAIN out.simplekv
            /\ p.peerPublicKey \in DOMAIN out.wg[i].peers
            /\ out.wg[i].peers[p.peerPublicKey].endpoint = Loopback(p.underlay.listen_port)

\* what the code does instead: the unit is started and the record written,
\* then the call ends in the exception of writeFile(undefined) and the
\* device is as before
C30_ClientUnderlayThrowsAtEndpoint ==
    \A i \in ClientPeersToCreate :
        LET p == remotePeers[i]
            out == doSyncCreateLocalUnderlay(Machine(NoFault), p, i)
        IN  /\ out.st = "aborted"
            /\ out.error = "ERR_INVALID_ARG_TYPE: data is undefined"
            /\ \E u \in DOMAIN out.units : out.units[u].ifn = i /\ out.units[u].mode = "client"
            /\ i \in DOMAIN out.simplekv
            /\ out.wg = wg

\* a state in which a relay-client worker is to be created
C30_ClientUnderlayDue == ClientPeersToCreate # {}

\* peer interfaces that exist with a peer entry and want no underlay
KeepalivePeers ==
    {i \in DOMAIN remotePeers \cap InNs(Machine(NoFault)) :
        /\ remotePeers[i].underlay.provider = "none"
        /\ i \notin DOMAIN simplekv
        /\ DOMAIN wg[i].peers # {}}
SetsKeepalive(out, i) == \E o \in out.issued : o.op = "wg set keepalive" /\ o.ifn = i

\* C31: for an existing peer interface with no underlay desired, the peers
\* stage issues `wg set ... persistent-keepalive` iff the observed keepalive
\* (off when none is set) differs from the desired one; desired 0 with
\* observed off counts as equal.
C31_KeepaliveSetIffDiffers ==
    \A i \in KeepalivePeers :
        LET out == doSyncPeers(Machine(NoFault), remotePeers)
            observed == wg[i].peers[Min(DOMAIN wg[i].peers)].keepalive
        IN  SetsKeepalive(out, i) <=> observed # remotePeers[i].keepalive

\* the same for a desired keepalive other than 0: this much the code keeps
C31_KeepaliveSetIffDiffersNonZero ==
    \A i \in KeepalivePeers :
        LET out == doSyncPeers(Machine(NoFault), remotePeers)
            observed == wg[i].peers[Min(DOMAIN wg[i].peers)].keepalive
        IN  remotePeers[i].keepalive # 0 =>
                (SetsKeepalive(out, i) <=> observed # remotePeers[i].keepalive)

\* the commands a tick issued, in order
LogOps(out) == [k \in 1..Len(out.log) |-> out.log[k].op]
\* the position of a command in the log, 0 when it was not issued
At(ops, op) == IF \E k \in 1..Len(ops) : ops[k] = op
               THEN CHOOSE k \in 1..Len(ops) : ops[k] = op /\ \A j \in 1..(k - 1) : ops[j] # op
               ELSE 0
\* op a, if issued, comes after op b was issued
After(ops, a, b) == At(ops, a) # 0 => (At(ops, b) # 0 /\ At(ops, b) < At(ops, a))
\* failures of the config write, of the container start and of the reload
RoutingSites == {<<s, 0>> : s \in {"writeFile bird.conf", "mv bird.conf", "EnsureRouterContainer",
                                   "birdc configure"}}

\* C32: in every tick, with or without a failure in the routing stage, the
\* config is moved into place before a container is created or started and
\* before `birdc configure`; `birdc configure` is issued only after
\* EnsureRouterContainer returned, for a running container; the telemetry
\* ping window opens only after `birdc configure`; and when the write, the
\* container start or the reload failed, no telemetry is posted.
C32_RoutingBeforeTelemetry ==
    \A f \in RoutingSites \cup {NoFault} :
        LET out == doSyncOnce(Machine(f), remoteConfig, remotePeers, NoSamples)
            ops == LogOps(out)
        IN  /\ After(ops, "podman create", "mv bird.conf")
            /\ After(ops, "podman start", "mv bird.conf")
            /\ After(ops, "birdc configure", "mv bird.conf")
            /\ \A k \in 1..Len(out.log) :
                   out.log[k].op = "birdc configure" => out.log[k].router = "running"
            /\ After(ops, "ping window", "birdc configure")
            /\ After(ops, "POST link_telemetry", "ping window")
            /\ (f \in RoutingSites /\ out.faulted) =>
                   (/\ out.st = "aborted"
                    /\ At(ops, "ping window") = 0
                    /\ At(ops, "POST link_telemetry") = 0
                    /\ At(ops, "POST router_telemetry") = 0)

\* C32 witness: a completed tick went through the routing stage for a peer
\* and left the container running, and a tick from here whose reload fails
\* has moved the config and stops before the telemetry
C32_ReloadThenTelemetry ==
    /\ Completed
    /\ router = "running"
    /\ DOMAIN bird.costMap # {}
    /\ LET out == doSyncOnce(Machine(<<"birdc configure", 0>>), remoteConfig, remotePeers, NoSamples)
       IN  /\ out.faulted
           /\ At(LogOps(out), "mv bird.conf") # 0
           /\ At(LogOps(out), "ping window") = 0

\* C33: whenever the prerequisite stage has completed without error, the
\* TCPMSS clamp rule is in the FORWARD chain of the namespace, whatever the
\* outcome of the rule-existence check (present, absent, failed otherwise).
\* iptables is a set here: "exactly once" is "is a member", and the stage
\* appends the rule only after a check that reported it absent.
C33_CheckOutcomes == {NoFault, <<"iptables -C TCPMSS", 0>>}

C33_ClampAfterPrerequisites ==
    \A f \in C33_CheckOutcomes :
        LET out == EnsurePrerequisites(Machine(f))
        IN  out.st = "ok" => TcpMssRule \in out.iptables

\* the same with a check that answers present or absent
C33_ClampAfterAnsweredCheck ==
    LET out == EnsurePrerequisites(Machine(NoFault))
    IN  /\ out.st = "ok" => TcpMssRule \in out.iptables
        /\ TcpMssRule \in iptables =>
               ~ \E i \in out.issued : i.op = "iptables -A" /\ i.rule = TcpMssRule

C35_RxOfUndefined == "TypeError: Cannot read properties of undefined (reading 'rx')"

C35_LinksAsMeasured ==
    \A samples \in [PeerIds -> SampleSeqs] :
        LET links == telemetryLinks(Machine(NoFault), remotePeers, samples)
        IN  /\ DOMAIN links = {i \in DOMAIN remotePeers : i \in DOMAIN wg /\ wg[i].inns}
            /\ \A i \in DOMAIN links :
                   /\ links[i].id = i
                   /\ links[i].ping = IF samples[i] = << >> THEN Num(-1)
                                      ELSE TrimmedMean(samples[i])

C35_LinkTelemetry ==
    /\ C35_LinksAsMeasured
    /\ LET out == collectTelemetry(Machine(NoFault), remotePeers)
       IN  out.st = "ok" /\ At(LogOps(out), "POST link_telemetry") # 0

\* the stage posts the links unless a fetched peer's interface has no peer
C35_LinkTelemetryUnlessEmptyTable ==
    /\ C35_LinksAsMeasured
    /\ LET out == collectTelemetry(Machine(NoFault), remotePeers)
       IN  IF \E i \in DOMAIN remotePeers \cap InNs(Machine(NoFault)) : DOMAIN wg[i].peers = {}
           THEN out.st = "aborted" /\ out.error = C35_RxOfUndefined
                /\ At(LogOps(out), "POST link_telemetry") = 0
           ELSE out.st = "ok" /\ At(LogOps(out), "POST link_telemetry") # 0

\* C36: the stale-interface pass of a tick destroys only WireGuard
\* interfaces named {ns}-<id>: an interface of the namespace whose name
\* does not carry the agent prefix is never destroyed by a tick.
C36_ForeignInterfaceKept ==
    [][\A id \in ForeignIds : id \in DOMAIN wg => id \in DOMAIN wg']_vars

\* what the pass does: every interface of the dump that no fetched peer
\* names is gone after a completed tick, whatever its name
C36_UnmarkedInterfaceDestroyed ==
    LET out == doSyncOnce(Machine(NoFault), remoteConfig, remotePeers, NoSamples)
    IN  out.st = "ok" => InNs(out) \subseteq DOMAIN remotePeers

\* C37: whenever a completed tick leaves a client-mode underlay record for
\* an existing peer interface, the endpoint of that interface's WireGuard
\* peer is 127.0.0.1:{record.listen_port}, also when the interface was
\* re-created while the record survived.
C37_ClientRecords ==
    {id \in DOMAIN remotePeers \cap DOMAIN simplekv :
        /\ id \in DOMAIN wg /\ wg[id].inns
        /\ simplekv[id].value.mode = "client"}

C37_ClientRecordMeansLoopback ==
    Completed =>
        \A id \in C37_ClientRecords :
            /\ DOMAIN wg[id].peers # {}
            /\ \A k \in DOMAIN wg[id].peers :
                   wg[id].peers[k].endpoint = Loopback(simplekv[id].value.listen_port)

\* the re-created interface with the declared underlay unchanged: the tick
\* creates it with the declared endpoint, fails at reading the record and
\* leaves the endpoint as declared
C37_RecreatedKeepsDeclaredEndpoint ==
    \A id \in (DOMAIN remotePeers \cap DOMAIN simplekv) \ DOMAIN wg :
        LET out == doSyncOnce(Machine(NoFault), remoteConfig, remotePeers, NoSamples)
            peer == remotePeers[id]
        IN  (/\ simplekv[id].value.mode = "client"
             /\ peer.underlay.provider = "gost_relay_client"
             /\ ~ needRecreate(simplekv[id].value, peer.underlay)
             /\ \A j \in DOMAIN remotePeers : j >= id)
            => /\ out.st = "aborted"
               /\ id \in InNs(out)
               /\ out.wg[id].peers[peer.peerPublicKey].endpoint = peer.endpoint
               /\ peer.endpoint # Loopback(simplekv[id].value.listen_port)

\* C38: when the controller has withdrawn the underlay of an existing peer,
\* the next tick completes and leaves the WireGuard peer endpoint of its
\* interface at the peer's declared endpoint, no longer at
\* 127.0.0.1:{old listen_port}.
C38_Withdrawn ==
    {id \in DOMAIN remotePeers \cap DOMAIN simplekv :
        /\ remotePeers[id].underlay.provider = "none"
        /\ id \in DOMAIN wg /\ wg[id].inns}

C38_WithdrawalNeverCompletes ==
    \A id \in C38_Withdrawn :
        LET out == doSyncOnce(Machine(NoFault), remoteConfig, remotePeers, NoSamples)
        IN  /\ out.st = "aborted"
            /\ id \in DOMAIN out.simplekv
            /\ out.units = units

\* C39: no relay worker leaks: at most one worker unit is running per
\* interface, and every running worker unit is named by the unit_name of
\* a record of the store.
C39_NoWorkerLeak ==
    /\ \A u1, u2 \in DOMAIN units : units[u1].ifn = units[u2].ifn => u1 = u2
    /\ \A u \in DOMAIN units :
           \E id \in DOMAIN simplekv : simplekv[id].value.unit_name = u

\* C40: the veth decision is the same in every stage of a tick: the
\* rendered routing config holds {ns}-veth1 (ifname 0) only if doSyncVeth
\* of the same tick treats the veth as desired, so not with a vethCIDR
\* that is the empty string.
C40_VethRendered == \E a \in DOMAIN bird.areas : 0 \in DOMAIN bird.areas[a]

C40_VethDecidedOnce ==
    Completed => (C40_VethRendered => ~ isEmptyString(remoteConfig.vethCIDR))

\* what doSyncBird tests: vethCIDR !== undefined, the empty string included
C40_VethRenderedIffDefined ==
    Completed =>
        (C40_VethRendered <=> (remoteConfig.vethCIDR # "undefined" /\ remoteConfig.ospf.defined))

====
